---- MODULE Spec2Model ----
(***************************************************************************)
(* A model of the Network Delay Visualizer (src/src/DelayVisualizer.jsx):  *)
(* the delay decomposition engine (computeMetrics), the scenario state     *)
(* codec (encodeState / decodeState), the scenario store (loadScenarios,   *)
(* saveScenarios, the ScenarioManager handlers) and the application state  *)
(* of the DelayVisualizer component with its event handlers.               *)
(*                                                                         *)
(* JavaScript values are tagged records.  Strings are sequences of Unicode *)
(* code points.  Objects are sequences of <<key, value>> pairs in          *)
(* insertion order.  Numbers are exact rationals n/d in lowest terms, or   *)
(* NaN, +Infinity, -Infinity: the rounding of IEEE doubles and the sign of *)
(* zero are not modelled.                                                  *)
(***************************************************************************)
EXTENDS Integers, Sequences, FiniteSets, TLC

VARIABLES
    phase,      \* "mount": first render done, effects pending; "run": mounted
    A,          \* useState A (line 125)
    B,          \* useState B (line 126)
    compare,    \* useState compare (line 127)
    activeTab,  \* useState activeTab (line 129)
    scenarios,  \* useState scenarios (line 130), the scenario store
    name,       \* useState name of ScenarioManager (line 608), the typed name
    mA,         \* useMemo mA (line 187)
    mB,         \* useMemo mB (line 188)
    diff,       \* useMemo diff (line 189)
    lsBlocked,  \* localStorage access raises (storage denied)
    slot,       \* localStorage slot LS_KEY: JsNull when absent, else a string
    sParam,     \* the "s" query parameter of window.location: JsNull or a string
    now,        \* Date.now()
    shared,     \* the last URL token handed to the clipboard by shareURL
    ev          \* the last event handled, with what it observed

vars == <<phase, A, B, compare, activeTab, scenarios, name, mA, mB, diff,
          lsBlocked, slot, sParam, now, shared, ev>>

----------------------------------------------------------------------------
(* JavaScript values *)

JsNull == [t |-> "null"]
JsUndef == [t |-> "undef"]
NaN == [t |-> "nan"]
PosInf == [t |-> "inf"]
NegInf == [t |-> "ninf"]
JsBool(b) == [t |-> "bool", b |-> b]
JsStr(cs) == [t |-> "str", s |-> cs]
JsObj(kv) == [t |-> "obj", kv |-> kv]
JsArr(a) == [t |-> "arr", a |-> a]

Abs(x) == IF x < 0 THEN -x ELSE x

RECURSIVE Gcd(_, _)
Gcd(a, b) == IF b = 0 THEN a ELSE Gcd(b, a % b)

\* n/d over the common divisor g, with a positive denominator.
Reduced(n, d, g) ==
    [t |-> "num", n |-> (IF d < 0 THEN -1 ELSE 1) * (n \div g), d |-> Abs(d) \div g]

\* The rational n/d (d # 0) in lowest terms with a positive denominator.
Rat(n, d) == Reduced(n, d, Gcd(Abs(n), Abs(d)))

Num(n) == [t |-> "num", n |-> n, d |-> 1]

IsNumber(v) == v.t \in {"num", "nan", "inf", "ninf"}
IsFinite(v) == v.t = "num"
IsString(v) == v.t = "str"

\* The sign of a number that is not NaN: -1, 0 or 1.
Sign(x) ==
    CASE x.t = "inf" -> 1
      [] x.t = "ninf" -> -1
      [] OTHER -> IF x.n > 0 THEN 1 ELSE IF x.n < 0 THEN -1 ELSE 0

Signed(s) == IF s > 0 THEN PosInf ELSE NegInf

\* The infinity of sign s, NaN when s is 0.
SignedOrNaN(s) == IF s = 0 THEN NaN ELSE Signed(s)

\* x * y where an operand is infinite and neither is NaN.
InfMul(x, y) == SignedOrNaN(Sign(x) * Sign(y))

\* The product of the fractions x and y, g1 dividing x.n and y.d, g2 dividing
\* y.n and x.d.
CrossMul(x, y, g1, g2) ==
    IF x.n = 0 \/ y.n = 0 THEN Num(0)
    ELSE [t |-> "num", n |-> (x.n \div g1) * (y.n \div g2),
          d |-> (x.d \div g2) * (y.d \div g1)]

\* x * y on numbers.
NumMul(x, y) ==
    IF x.t = "nan" \/ y.t = "nan" THEN NaN
    ELSE IF x.t # "num" \/ y.t # "num" THEN InfMul(x, y)
    ELSE CrossMul(x, y, Gcd(Abs(x.n), y.d), Gcd(Abs(y.n), x.d))

\* x / y where an operand is infinite or y is zero, and neither is NaN.
InfDiv(x, y) ==
    IF x.t # "num" /\ y.t # "num" THEN NaN
    ELSE IF x.t # "num" THEN Signed(Sign(x) * (IF Sign(y) < 0 THEN -1 ELSE 1))
    ELSE IF y.t # "num" THEN Num(0)
    ELSE IF x.n = 0 THEN NaN ELSE Signed(Sign(x))

\* 1 / y for a fraction y that is not zero.
Inverse(y) == [t |-> "num", n |-> (IF y.n < 0 THEN -1 ELSE 1) * y.d, d |-> Abs(y.n)]

\* x / y on numbers.
NumDiv(x, y) ==
    IF x.t = "nan" \/ y.t = "nan" THEN NaN
    ELSE IF x.t # "num" \/ y.t # "num" \/ y.n = 0 THEN InfDiv(x, y)
    ELSE NumMul(x, Inverse(y))

\* The sum of the fractions x and y over the common denominator l.
SumOver(x, y, l) == Rat(x.n * (l \div x.d) + y.n * (l \div y.d), l)

\* x + y on numbers.
NumAdd(x, y) ==
    IF x.t = "nan" \/ y.t = "nan" THEN NaN
    ELSE IF x.t # "num" /\ y.t # "num" THEN (IF x.t = y.t THEN x ELSE NaN)
    ELSE IF x.t # "num" THEN x
    ELSE IF y.t # "num" THEN y
    ELSE SumOver(x, y, (x.d \div Gcd(x.d, y.d)) * y.d)

NumNeg(x) ==
    CASE x.t = "nan" -> NaN
      [] x.t = "inf" -> NegInf
      [] x.t = "ninf" -> PosInf
      [] OTHER -> [x EXCEPT !.n = -x.n]

NumSub(x, y) == NumAdd(x, NumNeg(y))

\* x < y on numbers (false when either is NaN).
NumLt(x, y) ==
    IF x.t = "nan" \/ y.t = "nan" THEN FALSE
    ELSE IF x.t = "inf" \/ y.t = "ninf" THEN FALSE
    ELSE IF x.t = "ninf" \/ y.t = "inf" THEN TRUE
    ELSE Sign(NumSub(x, y)) < 0

NumLe(x, y) == x.t # "nan" /\ y.t # "nan" /\ ~NumLt(y, x)

\* Math.max and Math.min on two numbers: NaN when either is.
NumMax(x, y) == IF x.t = "nan" \/ y.t = "nan" THEN NaN ELSE IF NumLt(x, y) THEN y ELSE x
NumMin(x, y) == IF x.t = "nan" \/ y.t = "nan" THEN NaN ELSE IF NumLt(y, x) THEN y ELSE x

\* Math.round: the nearest integer, halves towards +Infinity.
NumRound(x) ==
    IF x.t # "num" THEN x
    ELSE Num((2 * x.n + x.d) \div (2 * x.d))

----------------------------------------------------------------------------
(* Strings: the texts of the source, as code points *)

K_name == <<110, 97, 109, 101>>   \* "name"
K_packetKB == <<112, 97, 99, 107, 101, 116, 75, 66>>   \* "packetKB"
K_rateMbps == <<114, 97, 116, 101, 77, 98, 112, 115>>   \* "rateMbps"
K_distanceKm == <<100, 105, 115, 116, 97, 110, 99, 101, 75, 109>>   \* "distanceKm"
K_medium == <<109, 101, 100, 105, 117, 109>>   \* "medium"
K_hops == <<104, 111, 112, 115>>   \* "hops"
K_procUsPerHop == <<112, 114, 111, 99, 85, 115, 80, 101, 114, 72, 111, 112>>   \* "procUsPerHop"
K_queueMsPerHop == <<113, 117, 101, 117, 101, 77, 115, 80, 101, 114, 72, 111, 112>>   \* "queueMsPerHop"
K_queueModel == <<113, 117, 101, 117, 101, 77, 111, 100, 101, 108>>   \* "queueModel"
K_utilization == <<117, 116, 105, 108, 105, 122, 97, 116, 105, 111, 110>>   \* "utilization"
K_savedAt == <<115, 97, 118, 101, 100, 65, 116>>   \* "savedAt"
K_A == <<65>>   \* "A"
K_B == <<66>>   \* "B"
S_A == <<65>>   \* "A"
S_Bcompare == <<66, 32, 40, 99, 111, 109, 112, 97, 114, 101, 41>>   \* "B (compare)"
S_Scenario == <<83, 99, 101, 110, 97, 114, 105, 111>>   \* "Scenario"
S_Fiber == <<70, 105, 98, 101, 114>>   \* "Fiber"
S_Coax == <<67, 111, 97, 120>>   \* "Coax"
S_TwistedPair == <<84, 119, 105, 115, 116, 101, 100, 32, 80, 97, 105, 114>>   \* "Twisted Pair"
S_FreeSpaceRF == <<70, 114, 101, 101, 32, 83, 112, 97, 99, 101, 32, 40, 82, 70, 41>>   \* "Free Space (RF)"
S_Fixed == <<70, 105, 120, 101, 100>>   \* "Fixed"
S_MM1 == <<77, 77, 49>>   \* "MM1"
S_null == <<110, 117, 108, 108>>   \* "null"
S_true == <<116, 114, 117, 101>>   \* "true"
S_false == <<102, 97, 108, 115, 101>>   \* "false"
P_HFC == <<72, 70, 67, 32, 40, 67, 97, 98, 108, 101, 41>>   \* "HFC (Cable)"
P_DSL == <<68, 83, 76, 32, 40, 86, 68, 83, 76, 50, 41>>   \* "DSL (VDSL2)"
P_FTTH == <<70, 84, 84, 72, 32, 40, 71, 80, 79, 78, 41>>   \* "FTTH (GPON)"
P_4G == <<52, 71, 32, 76, 84, 69>>   \* "4G LTE"
P_5G == <<53, 71, 32, 40, 109, 105, 100, 45, 98, 97, 110, 100, 41>>   \* "5G (mid-band)"

IsDigit(c) == c >= 48 /\ c <= 57
\* JSON whitespace: tab, line feed, carriage return, space.
IsWs(c) == c \in {9, 10, 13, 32}

RECURSIVE Pow10(_)
Pow10(k) == IF k = 0 THEN 1 ELSE 10 * Pow10(k - 1)

\* The decimal digits of the natural number n.
RECURSIVE Digits(_)
Digits(n) == IF n < 10 THEN <<48 + n>> ELSE Digits(n \div 10) \o <<48 + (n % 10)>>

\* The digits of the fraction r/d (0 < r < d) whose expansion terminates.
RECURSIVE FracDigits(_, _)
FracDigits(r, d) ==
    IF r = 0 THEN <<>>
    ELSE <<48 + ((10 * r) \div d)>> \o FracDigits((10 * r) % d, d)

\* Number::toString for a finite number with a terminating decimal expansion
\* and no exponent form (magnitude between 1e-6 and 1e21).
NumberToString(x) ==
    CASE x.t = "nan" -> <<78, 97, 78>>
      [] x.t = "inf" -> <<73, 110, 102, 105, 110, 105, 116, 121>>
      [] x.t = "ninf" -> <<45, 73, 110, 102, 105, 110, 105, 116, 121>>
      [] OTHER ->
           LET a == Abs(x.n)
               f == FracDigits(a % x.d, x.d)
           IN  (IF x.n < 0 THEN <<45>> ELSE <<>>) \o Digits(a \div x.d)
               \o (IF f = <<>> THEN <<>> ELSE <<46>> \o f)

\* The value of the digits s[i..j-1] as a natural number.
RECURSIVE DigitsValue(_, _, _)
DigitsValue(s, i, j) ==
    IF j <= i THEN 0 ELSE 10 * DigitsValue(s, i, j - 1) + (s[j - 1] - 48)

\* The first position at or after i that holds no digit.
RECURSIVE SkipDigits(_, _)
SkipDigits(s, i) == IF i <= Len(s) /\ IsDigit(s[i]) THEN SkipDigits(s, i + 1) ELSE i

\* (-1)^neg * (ip + fp / 10^fd) * 10^(+-e)
DecimalValue(neg, ip, fp, fd, e, negExp) ==
    Rat((IF neg THEN -1 ELSE 1) * (ip * Pow10(fd) + fp) * (IF negExp THEN 1 ELSE Pow10(e)),
        Pow10(fd) * (IF negExp THEN Pow10(e) ELSE 1))

\* The number whose sign is at s[i], integer digits at s[i1..i2-1], fraction
\* digits at s[i2+1..i3-1] and exponent digits at s[i4..i5-1]: [ok, v, i].
ScanEnd(s, i, i1, i2, i3, i4, i5) ==
    IF /\ i2 > i1 /\ (s[i1] # 48 \/ i2 = i1 + 1)
       /\ i3 = i2 \/ i3 > i2 + 1
       /\ i4 = i3 \/ i5 > i4
    THEN [ok |-> TRUE,
          v |-> DecimalValue(i1 > i, DigitsValue(s, i1, i2),
                             IF i3 > i2 THEN DigitsValue(s, i2 + 1, i3) ELSE 0,
                             IF i3 > i2 THEN i3 - (i2 + 1) ELSE 0,
                             IF i4 > i3 THEN DigitsValue(s, i4, i5) ELSE 0,
                             i4 > i3 + 1 /\ s[i3 + 1] = 45),
          i |-> i5]
    ELSE [ok |-> FALSE, v |-> NaN, i |-> i]

\* The position after "e", "e+" or "e-" at s[i3], or i3 when no exponent starts.
ExpStart(s, i3) ==
    IF i3 <= Len(s) /\ s[i3] \in {69, 101}
    THEN (IF i3 + 1 <= Len(s) /\ s[i3 + 1] \in {43, 45} THEN i3 + 2 ELSE i3 + 1)
    ELSE i3

ScanExp(s, i, i1, i2, i3, i4) ==
    ScanEnd(s, i, i1, i2, i3, i4, IF i4 > i3 THEN SkipDigits(s, i4) ELSE i3)

ScanFrac(s, i, i1, i2, i3) == ScanExp(s, i, i1, i2, i3, ExpStart(s, i3))

ScanInt(s, i, i1, i2) ==
    ScanFrac(s, i, i1, i2, IF i2 <= Len(s) /\ s[i2] = 46 THEN SkipDigits(s, i2 + 1) ELSE i2)

ScanSign(s, i, i1) == ScanInt(s, i, i1, SkipDigits(s, i1))

\* The JSON number starting at s[i]: [ok, v, i] with i the position after it.
\* Grammar: -? (0 | [1-9][0-9]*) (. [0-9]+)? ([eE] [+-]? [0-9]+)?
ScanNumber(s, i) == ScanSign(s, i, IF i <= Len(s) /\ s[i] = 45 THEN i + 1 ELSE i)

RECURSIVE SkipWs(_, _)
SkipWs(s, i) == IF i <= Len(s) /\ IsWs(s[i]) THEN SkipWs(s, i + 1) ELSE i

\* The value of a scan r of cs that must reach the end of cs.
WholeNumber(cs, r) == IF r.ok /\ SkipWs(cs, r.i) > Len(cs) THEN r.v ELSE NaN

\* The number in cs from its first non-blank position i.
TrimmedToNumber(cs, i) ==
    IF i > Len(cs) THEN Num(0) ELSE WholeNumber(cs, ScanNumber(cs, i))

\* StringToNumber for the strings of the model: blank is 0, a decimal literal
\* in the JSON number form is its value, anything else NaN.
StringToNumber(cs) == TrimmedToNumber(cs, SkipWs(cs, 1))

\* ToNumber of a value (an array or object of the model has no numeric form).
ToNumber(v) ==
    CASE IsNumber(v) -> v
      [] v.t = "null" -> Num(0)
      [] v.t = "bool" -> IF v.b THEN Num(1) ELSE Num(0)
      [] v.t = "str" -> StringToNumber(v.s)
      [] OTHER -> NaN

\* ToBoolean.
Truthy(v) ==
    CASE v.t \in {"null", "undef", "nan"} -> FALSE
      [] v.t = "bool" -> v.b
      [] v.t = "num" -> v.n # 0
      [] v.t = "str" -> v.s # <<>>
      [] OTHER -> TRUE

\* Math.round
MathRound(a) == NumRound(ToNumber(a))

----------------------------------------------------------------------------
(* Objects *)

\* The position of key k in the pairs kv, or 0.
RECURSIVE IndexOfKey(_, _, _)
IndexOfKey(kv, k, i) ==
    IF i > Len(kv) THEN 0
    ELSE IF kv[i][1] = k THEN i
    ELSE IndexOfKey(kv, k, i + 1)

\* o.k (o?.k): undefined when o has no such property or is no object.
Get(o, k) ==
    IF o.t # "obj" THEN JsUndef
    ELSE LET i == IndexOfKey(o.kv, k, 1)
         IN  IF i = 0 THEN JsUndef ELSE o.kv[i][2]

\* Defining property k: an existing key keeps its place, a new one goes last.
Put(kv, k, v) ==
    LET i == IndexOfKey(kv, k, 1)
    IN  IF i = 0 THEN Append(kv, <<k, v>>) ELSE [kv EXCEPT ![i] = <<k, v>>]

\* The own enumerable properties a spread copies out of a value.
OwnProps(v) ==
    CASE v.t = "obj" -> v.kv
      [] v.t = "arr" -> [i \in 1..Len(v.a) |-> <<Digits(i - 1), v.a[i]>>]
      [] v.t = "str" -> [i \in 1..Len(v.s) |-> <<Digits(i - 1), JsStr(<<v.s[i]>>)>>]
      [] OTHER -> <<>>

RECURSIVE PutAll(_, _, _)
PutAll(kv, ps, i) ==
    IF i > Len(ps) THEN kv ELSE PutAll(Put(kv, ps[i][1], ps[i][2]), ps, i + 1)

\* { ...a, ...b }
Spread(a, b) == JsObj(PutAll(OwnProps(a), OwnProps(b), 1))

\* The same properties with the same values, whatever the key order.
SameFields(x, y) ==
    /\ x.t = "obj" /\ y.t = "obj"
    /\ {x.kv[i] : i \in 1..Len(x.kv)} = {y.kv[i] : i \in 1..Len(y.kv)}

----------------------------------------------------------------------------
(* Constants of the source (lines 5-58) *)

kb == 1024
Mb == 1000000
km == 1000

\* ToPropertyKey for the values of the model.
ToPropertyKey(v) ==
    CASE v.t = "str" -> v.s
      [] IsNumber(v) -> NumberToString(v)
      [] v.t = "null" -> S_null
      [] v.t = "bool" -> IF v.b THEN S_true ELSE S_false
      [] v.t = "undef" -> <<117, 110, 100, 101, 102, 105, 110, 101, 100>>
      [] OTHER -> <<91, 111, 98, 106, 101, 99, 116, 32, 79, 98, 106, 101, 99, 116, 93>>

PROP_SPEEDS ==
    JsObj(<< <<S_Fiber, Num(200000000)>>,
             <<S_Coax, Num(200000000)>>,
             <<S_TwistedPair, Num(200000000)>>,
             <<S_FreeSpaceRF, Num(300000000)>> >>)

Preset(rate, pk, dist, medium, hops, proc, queueMs, util) ==
    JsObj(<< <<K_rateMbps, rate>>, <<K_packetKB, pk>>, <<K_distanceKm, dist>>,
             <<K_medium, JsStr(medium)>>, <<K_hops, hops>>, <<K_procUsPerHop, proc>>,
             <<K_queueMsPerHop, queueMs>>, <<K_queueModel, JsStr(S_Fixed)>>,
             <<K_utilization, util>> >>)

PRESETS ==
    JsObj(<< <<P_HFC, Preset(Num(300), Rat(3, 2), Num(20), S_Coax,
                             Num(8), Num(50), Rat(1, 5), Rat(1, 2))>>,
             <<P_DSL, Preset(Num(50), Rat(3, 2), Num(5), S_TwistedPair,
                             Num(6), Num(50), Rat(3, 10), Rat(3, 5))>>,
             <<P_FTTH, Preset(Num(1000), Rat(3, 2), Num(30), S_Fiber,
                              Num(10), Num(40), Rat(1, 10), Rat(7, 20))>>,
             <<P_4G, Preset(Num(75), Rat(3, 2), Num(3), S_FreeSpaceRF,
                            Num(12), Num(80), Rat(4, 5), Rat(7, 10))>>,
             <<P_5G, Preset(Num(400), Rat(3, 2), Num(2), S_FreeSpaceRF,
                            Num(12), Num(60), Rat(2, 5), Rat(1, 2))>> >>)

DEFAULT_SCENARIO ==
    JsObj(<< <<K_name, JsStr(S_Scenario)>>, <<K_packetKB, Rat(3, 2)>>,
             <<K_rateMbps, Num(1000)>>, <<K_distanceKm, Num(10)>>,
             <<K_medium, JsStr(S_Fiber)>>, <<K_hops, Num(10)>>,
             <<K_procUsPerHop, Num(50)>>, <<K_queueMsPerHop, Rat(1, 5)>>,
             <<K_queueModel, JsStr(S_Fixed)>>, <<K_utilization, Rat(1, 2)>> >>)

\* { ...o, k: v }
With(o, k, v) == JsObj(Put(OwnProps(o), k, v))

\* { ...DEFAULT_SCENARIO, name: "A" } and { ...DEFAULT_SCENARIO, name: "B (compare)" }
DefaultA == With(DEFAULT_SCENARIO, K_name, JsStr(S_A))
DefaultB == With(DEFAULT_SCENARIO, K_name, JsStr(S_Bcompare))

----------------------------------------------------------------------------
(* The metrics engine (lines 15, 60-96) *)

\* Math.min(max, Math.max(min, n)) on numbers: n as ToNumber gives it, min and
\* max number literals at every call.
\* clamp with the lower bound alone: Math.max(min, n).
clampFloor(n, min, max) == NumMax(min, n)

clamp(n, min, max) == NumMin(max, NumMax(min, n))

\* The utilization bound of line 71, 0.98.
RhoMax == Rat(49, 50)

\* Wq_s * 1000 for the service rate mu and the load rho (lines 72-74).
WaitMs(rho, mu) == NumMul(NumDiv(rho, NumSub(mu, NumMul(rho, mu))), Num(1000))

\* The numeric fields of s as the arithmetic operators see them.
NumericKeys ==
    {K_packetKB, K_rateMbps, K_distanceKm, K_hops, K_procUsPerHop, K_queueMsPerHop,
     K_utilization}
NumberOf(s) == [k \in NumericKeys |-> ToNumber(Get(s, k))]

\* queuePerHop_ms of the M/M/1 branch (lines 69-75).
MM1QueuePerHopMs(n, bits, rate) ==
    WaitMs(clamp(n[K_utilization], Num(0), RhoMax), NumDiv(rate, bits))

\* PROP_SPEEDS[s.medium] as the division sees it: a speed, or undefined (NaN).
SpeedNumber(v) == IF IsNumber(v) THEN v ELSE NaN

\* The record of lines 91-95 with a total that leaves the queuing delay out.
MetricsRecordLessQueue(bits, rate, tx, q, dTrans, dProp, dProc, dQueue) ==
    [bits |-> bits, rate |-> rate, txPerHop_ms |-> tx,
     dTransTotalMs |-> dTrans, dPropMs |-> dProp,
     dProcTotalMs |-> dProc, dQueueTotalMs |-> dQueue,
     totalMs |-> NumAdd(NumAdd(dTrans, dProp), dProc),
     queuePerHop_ms |-> q,
     parts |-> << [key |-> "tx", value |-> dTrans],
                  [key |-> "prop", value |-> dProp],
                  [key |-> "proc", value |-> dProc],
                  [key |-> "queue", value |-> dQueue] >>,
     maxPart |-> NumMax(NumMax(NumMax(NumMax(Num(1), dTrans), dProp), dProc), dQueue)]

\* Lines 85-95: the total, the parts and the record returned.
MetricsRecord(bits, rate, tx, q, dTrans, dProp, dProc, dQueue) ==
    [bits |-> bits, rate |-> rate, txPerHop_ms |-> tx,
     dTransTotalMs |-> dTrans, dPropMs |-> dProp,
     dProcTotalMs |-> dProc, dQueueTotalMs |-> dQueue,
     totalMs |-> NumAdd(NumAdd(NumAdd(dTrans, dProp), dProc), dQueue),
     queuePerHop_ms |-> q,
     parts |-> << [key |-> "tx", value |-> dTrans],
                  [key |-> "prop", value |-> dProp],
                  [key |-> "proc", value |-> dProc],
                  [key |-> "queue", value |-> dQueue] >>,
     maxPart |-> NumMax(NumMax(NumMax(NumMax(Num(1), dTrans), dProp), dProc), dQueue)]

\* Lines 77-80: the four delays over all hops.
Delays(s, n, bits, rate, tx, q) ==
    MetricsRecord(bits, rate, tx, q,
        NumMul(tx, n[K_hops]),
        NumMul(NumDiv(NumMul(n[K_distanceKm], Num(km)),
                      SpeedNumber(Get(PROP_SPEEDS, ToPropertyKey(Get(s, K_medium))))),
               Num(1000)),
        NumMul(NumDiv(n[K_procUsPerHop], Num(1000)), n[K_hops]),
        NumMul(IF IsNumber(q) THEN q ELSE n[K_queueMsPerHop], n[K_hops]))

\* Lines 66-75: the per-hop transmission and queuing delays.
PerHop(s, n, bits, rate) ==
    Delays(s, n, bits, rate,
        NumMul(NumDiv(bits, rate), Num(1000)),
        IF Get(s, K_queueModel) = JsStr(S_MM1)
        THEN MM1QueuePerHopMs(n, bits, rate)
        ELSE Get(s, K_queueMsPerHop))

\* Lines 61-62: bits and rate.
Sized(s, n) ==
    PerHop(s, n, NumMul(NumMul(n[K_packetKB], Num(kb)), Num(8)),
           NumMul(n[K_rateMbps], Num(Mb)))

computeMetrics(s) == Sized(s, NumberOf(s))

----------------------------------------------------------------------------
(* JSON.stringify and JSON.parse *)

HexDigit(n) == IF n < 10 THEN 48 + n ELSE 87 + n

\* \uXXXX with lowercase hex digits.
UnicodeEscape(c) ==
    <<92, 117, HexDigit(c \div 4096), HexDigit((c \div 256) % 16),
      HexDigit((c \div 16) % 16), HexDigit(c % 16)>>

\* QuoteJSONString's form of one code point.
QuoteChar(c) ==
    CASE c = 34 -> <<92, 34>>
      [] c = 92 -> <<92, 92>>
      [] c = 8 -> <<92, 98>>
      [] c = 12 -> <<92, 102>>
      [] c = 10 -> <<92, 110>>
      [] c = 13 -> <<92, 114>>
      [] c = 9 -> <<92, 116>>
      [] c < 32 \/ (c >= 55296 /\ c <= 57343) -> UnicodeEscape(c)
      [] OTHER -> <<c>>

\* The concatenation of the sequences ss[lo..hi], by halves.
RECURSIVE Flatten(_, _, _)
Flatten(ss, lo, hi) ==
    IF lo > hi THEN <<>>
    ELSE IF lo = hi THEN ss[lo]
    ELSE Flatten(ss, lo, (lo + hi) \div 2) \o Flatten(ss, (lo + hi) \div 2 + 1, hi)

Concat(ss) == Flatten(ss, 1, Len(ss))

Quote(cs) == <<34>> \o Concat([i \in 1..Len(cs) |-> QuoteChar(cs[i])]) \o <<34>>

\* SerializeJSONProperty: the text of a value.  A member whose value is
\* undefined is left out of an object; an undefined element is written null.
RECURSIVE Stringify(_)
Stringify(v) ==
    CASE v.t = "num" -> NumberToString(v)
      [] v.t \in {"nan", "inf", "ninf", "null"} -> S_null
      [] v.t = "bool" -> IF v.b THEN S_true ELSE S_false
      [] v.t = "str" -> Quote(v.s)
      [] v.t = "arr" ->
           <<91>> \o Concat([i \in 1..Len(v.a) |->
                        (IF i = 1 THEN <<>> ELSE <<44>>) \o Stringify(v.a[i])]) \o <<93>>
      [] v.t = "obj" ->
           LET kv == SelectSeq(v.kv, LAMBDA p : p[2].t # "undef")
           IN  <<123>> \o Concat([i \in 1..Len(kv) |->
                          (IF i = 1 THEN <<>> ELSE <<44>>) \o Quote(kv[i][1]) \o <<58>>
                          \o Stringify(kv[i][2])]) \o <<125>>
      [] OTHER -> S_null

\* JSON.stringify(v) of a value that is not undefined.
JSONstringify(v) == Stringify(v)

HexValue(c) ==
    IF c >= 48 /\ c <= 57 THEN c - 48
    ELSE IF c >= 97 /\ c <= 102 THEN c - 87
    ELSE IF c >= 65 /\ c <= 70 THEN c - 55
    ELSE -1

Fail(i) == [ok |-> FALSE, v |-> JsUndef, i |-> i]

\* Whether s holds the text w at position i.
StartsWith(s, i, w) ==
    /\ i + Len(w) - 1 <= Len(s)
    /\ \A k \in 1..Len(w) : s[i + k - 1] = w[k]

\* The characters of a JSON string from position i (after the opening quote)
\* to its closing quote: [ok, v, i] with v the code points read so far in acc.
RECURSIVE ParseChars(_, _, _)
ParseChars(s, i, acc) ==
    IF i > Len(s) THEN Fail(i)
    ELSE IF s[i] = 34 THEN [ok |-> TRUE, v |-> acc, i |-> i + 1]
    ELSE IF s[i] < 32 THEN Fail(i)
    ELSE IF s[i] # 92 THEN ParseChars(s, i + 1, Append(acc, s[i]))
    ELSE IF i + 1 > Len(s) THEN Fail(i)
    ELSE LET e == s[i + 1]
         IN  CASE e \in {34, 92, 47} -> ParseChars(s, i + 2, Append(acc, e))
               [] e = 98 -> ParseChars(s, i + 2, Append(acc, 8))
               [] e = 102 -> ParseChars(s, i + 2, Append(acc, 12))
               [] e = 110 -> ParseChars(s, i + 2, Append(acc, 10))
               [] e = 114 -> ParseChars(s, i + 2, Append(acc, 13))
               [] e = 116 -> ParseChars(s, i + 2, Append(acc, 9))
               [] e = 117 ->
                    IF i + 5 <= Len(s) /\ \A k \in 2..5 : HexValue(s[i + k]) >= 0
                    THEN ParseChars(s, i + 6,
                             Append(acc, 4096 * HexValue(s[i + 2]) + 256 * HexValue(s[i + 3])
                                         + 16 * HexValue(s[i + 4]) + HexValue(s[i + 5])))
                    ELSE Fail(i)
               [] OTHER -> Fail(i)

RECURSIVE ParseValue(_, _)
RECURSIVE ParseMembers(_, _, _)
RECURSIVE ParseElements(_, _, _)

\* After the member k: v of an object whose earlier members are kv; j is the
\* position of what follows the value.
MemberNext(s, i, kv, k, v, j) ==
    IF ~v.ok \/ j > Len(s) THEN Fail(i)
    ELSE IF s[j] = 125 THEN [ok |-> TRUE, v |-> JsObj(Put(kv, k.v, v.v)), i |-> j + 1]
    ELSE IF s[j] = 44 THEN ParseMembers(s, j + 1, Put(kv, k.v, v.v))
    ELSE Fail(j)

MemberValue(s, i, kv, k, v) == MemberNext(s, i, kv, k, v, SkipWs(s, v.i))

\* c: the position where the colon after the key k is due.
MemberColon(s, i, kv, k, c) ==
    MemberValue(s, i, kv, k,
                IF k.ok /\ c <= Len(s) /\ s[c] = 58 THEN ParseValue(s, c + 1) ELSE Fail(i))

MemberKey(s, i, kv, k) == MemberColon(s, i, kv, k, SkipWs(s, k.i))

\* i: the position where a key is due.
MemberAt(s, i, kv) ==
    MemberKey(s, i, kv,
              IF i <= Len(s) /\ s[i] = 34 THEN ParseChars(s, i + 1, <<>>) ELSE Fail(i))

\* The members of an object from position i0 (a key is due) to its closing brace.
ParseMembers(s, i0, kv) == MemberAt(s, SkipWs(s, i0), kv)

\* One element more of an array: st is [ok, done, a, i] with a the elements
\* read so far and i the position where the next one is due.
ElementStep(s, st) ==
    LET v == ParseValue(s, st.i)
        j == SkipWs(s, v.i)
    IN  IF ~v.ok \/ j > Len(s) THEN [st EXCEPT !.ok = FALSE, !.done = TRUE]
        ELSE IF s[j] = 93
             THEN [ok |-> TRUE, done |-> TRUE, a |-> Append(st.a, v.v), i |-> j + 1]
        ELSE IF s[j] = 44
             THEN [ok |-> TRUE, done |-> FALSE, a |-> Append(st.a, v.v), i |-> j + 1]
        ELSE [st EXCEPT !.ok = FALSE, !.done = TRUE]

\* Up to k elements more, by halves.
RECURSIVE ElementSteps(_, _, _)
ElementSteps(s, st, k) ==
    IF st.done \/ k = 0 THEN st
    ELSE IF k = 1 THEN ElementStep(s, st)
    ELSE ElementSteps(s, ElementSteps(s, st, k \div 2), k - k \div 2)

ElementsRead(st) ==
    IF st.ok /\ st.done THEN [ok |-> TRUE, v |-> JsArr(st.a), i |-> st.i] ELSE Fail(st.i)

\* The elements of an array from position i0 to its closing bracket.
ParseElements(s, i0, a) ==
    ElementsRead(ElementSteps(s, [ok |-> TRUE, done |-> FALSE, a |-> a, i |-> i0], Len(s)))

\* The string whose characters r were read after the quote at i.
StringValue(r, i) == IF r.ok THEN [ok |-> TRUE, v |-> JsStr(r.v), i |-> r.i] ELSE Fail(i)

\* An object or array opened at i whose next token is at j: empty when the
\* closing character close stands there.
Opened(s, i, j, close, empty, rest) ==
    IF j <= Len(s) /\ s[j] = close THEN [ok |-> TRUE, v |-> empty, i |-> j + 1] ELSE rest

\* The JSON value whose first character is at i.
ValueAt(s, i) ==
    IF i > Len(s) THEN Fail(i)
    ELSE IF s[i] = 123
         THEN Opened(s, i, SkipWs(s, i + 1), 125, JsObj(<<>>), ParseMembers(s, i + 1, <<>>))
    ELSE IF s[i] = 91
         THEN Opened(s, i, SkipWs(s, i + 1), 93, JsArr(<<>>), ParseElements(s, i + 1, <<>>))
    ELSE IF s[i] = 34 THEN StringValue(ParseChars(s, i + 1, <<>>), i)
    ELSE IF s[i] = 45 \/ IsDigit(s[i]) THEN ScanNumber(s, i)
    ELSE IF StartsWith(s, i, S_null) THEN [ok |-> TRUE, v |-> JsNull, i |-> i + 4]
    ELSE IF StartsWith(s, i, S_true) THEN [ok |-> TRUE, v |-> JsBool(TRUE), i |-> i + 4]
    ELSE IF StartsWith(s, i, S_false) THEN [ok |-> TRUE, v |-> JsBool(FALSE), i |-> i + 5]
    ELSE Fail(i)

\* The JSON value at position i0 (whitespace skipped): [ok, v, i].
ParseValue(s, i0) == ValueAt(s, SkipWs(s, i0))

\* The value r read from the start of s, when nothing but whitespace follows.
ParsedWhole(s, r) ==
    IF r.ok /\ SkipWs(s, r.i) > Len(s)
    THEN [ok |-> TRUE, v |-> r.v]
    ELSE [ok |-> FALSE, v |-> JsUndef]

\* JSON.parse(text): [ok, v]; ok is FALSE where JSON.parse raises SyntaxError.
JSONparse(s) == ParsedWhole(s, ParseValue(s, 1))

----------------------------------------------------------------------------
(* UTF-8 and base64: unescape(encodeURIComponent(.)), btoa, atob,          *)
(* decodeURIComponent(escape(.))                                            *)

\* The UTF-8 bytes of one code point (a scalar value).
Utf8Bytes(c) ==
    IF c < 128 THEN <<c>>
    ELSE IF c < 2048 THEN <<192 + (c \div 64), 128 + (c % 64)>>
    ELSE IF c < 65536 THEN <<224 + (c \div 4096), 128 + ((c \div 64) % 64), 128 + (c % 64)>>
    ELSE <<240 + (c \div 262144), 128 + ((c \div 4096) % 64),
           128 + ((c \div 64) % 64), 128 + (c % 64)>>

IsSurrogate(c) == c >= 55296 /\ c <= 57343

\* unescape(encodeURIComponent(cs)): [ok, v]; encodeURIComponent raises
\* URIError on a lone surrogate.
Utf8Encode(cs) ==
    IF \E i \in 1..Len(cs) : IsSurrogate(cs[i])
    THEN [ok |-> FALSE, v |-> <<>>]
    ELSE [ok |-> TRUE, v |-> Concat([i \in 1..Len(cs) |-> Utf8Bytes(cs[i])])]

IsCont(bs, i) == i <= Len(bs) /\ bs[i] >= 128 /\ bs[i] <= 191

\* The length of the UTF-8 form a lead byte announces (0: no lead byte).
Utf8Len(b) ==
    IF b < 128 THEN 1
    ELSE IF b >= 192 /\ b < 224 THEN 2
    ELSE IF b >= 224 /\ b < 240 THEN 3
    ELSE IF b >= 240 /\ b < 248 THEN 4
    ELSE 0

\* The code point of the form that starts at bs[i], or -1 when it is not
\* well formed (a missing continuation byte, an overlong form, a surrogate,
\* a code point above 10FFFF).
Utf8At(bs, i) ==
    LET b == bs[i]
        n == Utf8Len(b)
        c2 == (b - 192) * 64 + (bs[i + 1] - 128)
        c3 == (b - 224) * 4096 + (bs[i + 1] - 128) * 64 + (bs[i + 2] - 128)
        c4 == (b - 240) * 262144 + (bs[i + 1] - 128) * 4096
              + (bs[i + 2] - 128) * 64 + (bs[i + 3] - 128)
    IN  IF n = 0 \/ ~(\A k \in 1..(n - 1) : IsCont(bs, i + k)) \/ IsCont(bs, i + n) THEN -1
        ELSE IF n = 1 THEN b
        ELSE IF n = 2 THEN (IF c2 >= 128 THEN c2 ELSE -1)
        ELSE IF n = 3 THEN (IF c3 >= 2048 /\ ~IsSurrogate(c3) THEN c3 ELSE -1)
        ELSE (IF c4 >= 65536 /\ c4 <= 1114111 THEN c4 ELSE -1)

\* decodeURIComponent(escape(bs)): [ok, v]; decodeURIComponent raises URIError
\* on bytes that are not well-formed UTF-8.  UTF-8 is self-synchronising: the
\* forms start at the bytes that are no continuation bytes.
Utf8Decode(bs) ==
    LET leads == SelectSeq([i \in 1..Len(bs) |-> i], LAMBDA i : ~IsCont(bs, i))
    IN  IF IsCont(bs, 1) \/ \E k \in 1..Len(leads) : Utf8At(bs, leads[k]) < 0
        THEN [ok |-> FALSE, v |-> <<>>]
        ELSE [ok |-> TRUE, v |-> [k \in 1..Len(leads) |-> Utf8At(bs, leads[k])]]

\* The base64 character of a 6-bit value.
B64Char(n) ==
    IF n < 26 THEN 65 + n
    ELSE IF n < 52 THEN 71 + n
    ELSE IF n < 62 THEN n - 4
    ELSE IF n = 62 THEN 43 ELSE 47

\* The 6-bit value of a base64 character, or -1.
B64Value(c) ==
    IF c >= 65 /\ c <= 90 THEN c - 65
    ELSE IF c >= 97 /\ c <= 122 THEN c - 71
    ELSE IF c >= 48 /\ c <= 57 THEN c + 4
    ELSE IF c = 43 THEN 62
    ELSE IF c = 47 THEN 63
    ELSE -1

\* The base64 characters of the group of up to three bytes at bs[i].
B64Group(bs, i) ==
    LET n == Len(bs) - i + 1
    IN  IF n = 1 THEN
            <<B64Char(bs[i] \div 4), B64Char((bs[i] % 4) * 16), 61, 61>>
        ELSE IF n = 2 THEN
            <<B64Char(bs[i] \div 4), B64Char((bs[i] % 4) * 16 + bs[i + 1] \div 16),
              B64Char((bs[i + 1] % 16) * 4), 61>>
        ELSE <<B64Char(bs[i] \div 4), B64Char((bs[i] % 4) * 16 + bs[i + 1] \div 16),
               B64Char((bs[i + 1] % 16) * 4 + bs[i + 2] \div 64), B64Char(bs[i + 2] % 64)>>

\* btoa on a string of bytes (every code unit at most 255).
btoa(bs) == Concat([g \in 1..((Len(bs) + 2) \div 3) |-> B64Group(bs, 3 * g - 2)])

\* The bytes of the group of up to four base64 characters at cs[i]; the bits
\* left over in a short group are dropped.
B64Bytes(cs, i) ==
    LET n == Len(cs) - i + 1
        v(k) == B64Value(cs[i + k])
    IN  IF n <= 1 THEN <<>>
        ELSE IF n = 2 THEN <<v(0) * 4 + v(1) \div 16>>
        ELSE IF n = 3 THEN <<v(0) * 4 + v(1) \div 16, (v(1) % 16) * 16 + v(2) \div 4>>
        ELSE <<v(0) * 4 + v(1) \div 16, (v(1) % 16) * 16 + v(2) \div 4,
               (v(2) % 4) * 64 + v(3)>>

\* atob (forgiving-base64 decode): [ok, v]; raises InvalidCharacterError
\* (ok FALSE) on a character outside the alphabet or a length of 1 mod 4.
atob(cs) ==
    LET a == SelectSeq(cs, LAMBDA c : c \notin {9, 10, 12, 13, 32})
        n == Len(a)
        pad == IF n % 4 = 0 /\ n >= 2 /\ a[n] = 61
               THEN (IF a[n - 1] = 61 THEN 2 ELSE 1) ELSE 0
        b == SubSeq(a, 1, n - pad)
    IN  IF Len(b) % 4 = 1 \/ \E i \in 1..Len(b) : B64Value(b[i]) < 0
        THEN [ok |-> FALSE, v |-> <<>>]
        ELSE [ok |-> TRUE, v |-> Concat([g \in 1..((Len(b) + 3) \div 4) |-> B64Bytes(b, 4 * g - 3)])]

----------------------------------------------------------------------------
(* The state codec (lines 112-122) *)

\* btoa of the bytes, when encodeURIComponent did not raise.
EncodedBytes(bytes) ==
    IF bytes.ok THEN [ok |-> TRUE, v |-> btoa(bytes.v)] ELSE [ok |-> FALSE, v |-> <<>>]

\* encodeState(sA, sB): [ok, v] with v the token; ok is FALSE where
\* encodeURIComponent raises.
encodeState(sA, sB) ==
    EncodedBytes(Utf8Encode(JSONstringify(JsObj(<< <<K_A, sA>>, <<K_B, sB>> >>))))

\* typeof obj === "object"
TypeofObject(v) == v.t \in {"obj", "arr", "null"}

\* Line 120: the parsed value when it is truthy and typeof "object", else null.
DecodedValue(obj) ==
    IF obj.ok /\ Truthy(obj.v) /\ TypeofObject(obj.v) THEN obj.v ELSE JsNull

\* Line 119: JSON.parse of the text, when decodeURIComponent did not raise.
DecodedText(text) ==
    DecodedValue(IF text.ok THEN JSONparse(text.v) ELSE [ok |-> FALSE, v |-> JsUndef])

\* Line 118: the text of the bytes, when atob did not raise.
DecodedBytes(bytes) ==
    DecodedText(IF bytes.ok THEN Utf8Decode(bytes.v) ELSE [ok |-> FALSE, v |-> <<>>])

\* decodeState(str): the object, or null; every raise inside is caught.
decodeState(str) == DecodedBytes(atob(str))

----------------------------------------------------------------------------
(* The scenario store's persistence (lines 97-110) *)

\* The store holds at most this many entries after a save (lines 613, 638, 648).
Cap == 50

\* Line 103 without its Array.isArray test: any parsed value is handed on.
LoadedUnchecked(arr) ==
    IF ~arr.ok THEN <<>> ELSE IF arr.v.t = "arr" THEN arr.v.a ELSE <<arr.v>>

\* Lines 102-103: the parsed value when it is an array, else [].
LoadedArray(arr) == IF arr.ok /\ arr.v.t = "arr" THEN arr.v.a ELSE <<>>

\* loadScenarios(): the elements of the array it returns.  blocked: getItem
\* raises; raw: what getItem returns (null when the slot is absent).
loadScenarios(blocked, raw) ==
    IF blocked THEN <<>>
    ELSE IF ~Truthy(raw) THEN <<>>
    ELSE LoadedArray(JSONparse(raw.s))

\* A saveScenarios that never reaches setItem.
saveScenariosSkipped(arr, failed, old) == old

\* The slot after saveScenarios(arr); failed: setItem raises (storage denied
\* or over quota), which the catch swallows.
saveScenarios(arr, failed, old) ==
    IF failed THEN old ELSE JsStr(JSONstringify(JsArr(arr)))

----------------------------------------------------------------------------
(* The component's derived values (lines 187-198) *)

\* The diff of line 189-198: null unless compare mode is on.
DiffOf(c, ma, mb) ==
    IF ~c THEN JsNull
    ELSE [t |-> "diff",
          totalMs |-> NumSub(mb.totalMs, ma.totalMs),
          tx |-> NumSub(mb.dTransTotalMs, ma.dTransTotalMs),
          prop |-> NumSub(mb.dPropMs, ma.dPropMs),
          proc |-> NumSub(mb.dProcTotalMs, ma.dProcTotalMs),
          queue |-> NumSub(mb.dQueueTotalMs, ma.dQueueTotalMs)]

\* useMemo(() => computeMetrics(s), [s]): recomputed when s changed.
MemoMetrics(old, new, cached) == IF new = old THEN cached ELSE computeMetrics(new)

\* The diff memo with the dependency list [compare].
MemoDiffOnCompare(c, ma, mb, c2, ma2, mb2, cached) ==
    IF c2 = c THEN cached ELSE DiffOf(c2, ma2, mb2)

\* useMemo(..., [compare, mA, mB]): recomputed when a dependency changed.
MemoDiff(c, ma, mb, c2, ma2, mb2, cached) ==
    IF c2 = c /\ ma2 = ma /\ mb2 = mb THEN cached ELSE DiffOf(c2, ma2, mb2)

\* The memos of lines 187-198 after a render with the metrics m of both sides.
Memoized(c2, m) ==
    /\ mA' = m["A"]
    /\ mB' = m["B"]
    /\ diff' = MemoDiff(compare, mA, mB, c2, m["A"], m["B"], diff)

\* The render that follows a state update to A2, B2, c2.
Render(A2, B2, c2) ==
    Memoized(c2, [side \in {"A", "B"} |->
                     MemoMetrics(IF side = "A" THEN A ELSE B,
                                 IF side = "A" THEN A2 ELSE B2,
                                 IF side = "A" THEN mA ELSE mB)])

----------------------------------------------------------------------------
(* Bounds and input sets *)

\* User events per run.
MaxEvents == 2
\* Store rows offered to Load, Rename and Delete: the first MaxIdx and the last.
MaxIdx == 1

Tabs == {"overview", "compare", "diagram", "help"}

\* Text of <input type="number"> and <input type="range">: e.target.value.
T_empty == <<>>                        \* ""  (the field cleared)
T_m5 == <<45, 53>>                     \* "-5"
T_0 == <<48>>                          \* "0"
T_2p5 == <<50, 46, 53>>                \* "2.5"
T_100 == <<49, 48, 48>>                \* "100"
T_20000 == <<50, 48, 48, 48, 48>>      \* "20000"
T_50000 == <<53, 48, 48, 48, 48>>      \* "50000"
T_2 == <<50>>                          \* "2"
T_128 == <<49, 50, 56>>                \* "128"
T_1 == <<49>>                          \* "1"
T_0p98 == <<48, 46, 57, 56>>           \* "0.98"
T_0p25 == <<48, 46, 50, 53>>           \* "0.25"

\* A number field accepts any text the user types; the browser hands over ""
\* for text that is no number.
NumberTexts == {T_empty, T_m5, T_2p5, T_50000}
ShortTexts == {T_empty, T_20000}
\* A range input hands over a value inside [min, max].
PacketTexts == {T_2, T_128}
RateTexts == {T_1, T_100}
UtilTexts == {T_0, T_0p25, T_0p98}
MediumInputs == {S_Coax, S_FreeSpaceRF}
QueueModels == {S_Fixed, S_MM1}
PresetNames == {P_HFC, P_DSL, P_FTTH, P_4G, P_5G}

N_x == <<120>>                         \* "x"
N_eacute == <<233, 8364>>              \* "é€"
TypedNames == {<<>>, N_eacute}
\* prompt() answers: a string, or null when cancelled.
PromptAnswers == {JsNull, JsStr(N_eacute)}

\* parseFloat(e.target.value) for the texts of the model: NaN for "" and for
\* text that does not start with a decimal literal.
ScannedFloat(r) == IF r.ok THEN r.v ELSE NaN
parseFloat(cs) == ScannedFloat(ScanNumber(cs, SkipWs(cs, 1)))

Rows(arr) == {i \in 1..Len(arr) : i <= MaxIdx \/ i = Len(arr)}

----------------------------------------------------------------------------
(* Startup inputs: contents of the localStorage slot and of the "s"        *)
(* parameter, as texts, each with the value it stands for                  *)

\* {oops
X_SlotBadJson ==
    <<123, 111, 111, 112, 115>>
\* {"a":1}
X_SlotObject ==
    <<123, 34, 97, 34, 58, 49, 125>>
\* 5
X_SlotNumber ==
    <<53>>
\* null
X_SlotNullText ==
    <<110, 117, 108, 108>>
\* []
X_SlotEmptyArr ==
    <<91, 93>>
\* [{"name":"x","packetKB":1.5,"rateMbps":300,"distanceKm":20,"medium":"Coax","hops":8,"procUsPerHop":50,"queueMsPerHop":0.2,"queueModel":"Fixed","utilization":0.5,"savedAt":7},{"name":"","hops":100,"queueModel":"MM1","utilization":1.5,"savedAt":3},1]
X_SlotTwo ==
    <<91, 123, 34, 110, 97, 109, 101, 34, 58, 34, 120, 34, 44, 34, 112, 97,
    99, 107, 101, 116, 75, 66, 34, 58, 49, 46, 53, 44, 34, 114, 97, 116, 101,
    77, 98, 112, 115, 34, 58, 51, 48, 48, 44, 34, 100, 105, 115, 116, 97,
    110, 99, 101, 75, 109, 34, 58, 50, 48, 44, 34, 109, 101, 100, 105, 117,
    109, 34, 58, 34, 67, 111, 97, 120, 34, 44, 34, 104, 111, 112, 115, 34,
    58, 56, 44, 34, 112, 114, 111, 99, 85, 115, 80, 101, 114, 72, 111, 112,
    34, 58, 53, 48, 44, 34, 113, 117, 101, 117, 101, 77, 115, 80, 101, 114,
    72, 111, 112, 34, 58, 48, 46, 50, 44, 34, 113, 117, 101, 117, 101, 77,
    111, 100, 101, 108, 34, 58, 34, 70, 105, 120, 101, 100, 34, 44, 34, 117,
    116, 105, 108, 105, 122, 97, 116, 105, 111, 110, 34, 58, 48, 46, 53, 44,
    34, 115, 97, 118, 101, 100, 65, 116, 34, 58, 55, 125, 44, 123, 34, 110,
    97, 109, 101, 34, 58, 34, 34, 44, 34, 104, 111, 112, 115, 34, 58, 49, 48,
    48, 44, 34, 113, 117, 101, 117, 101, 77, 111, 100, 101, 108, 34, 58, 34,
    77, 77, 49, 34, 44, 34, 117, 116, 105, 108, 105, 122, 97, 116, 105, 111,
    110, 34, 58, 49, 46, 53, 44, 34, 115, 97, 118, 101, 100, 65, 116, 34, 58,
    51, 125, 44, 49, 93>>
\* e29vcHM=   btoa of {oops
X_TokBadJson ==
    <<101, 50, 57, 118, 99, 72, 77, 61>>
\* NQ==   btoa of 5
X_TokNumber ==
    <<78, 81, 61, 61>>
\* InMi   btoa of "s"
X_TokString ==
    <<73, 110, 77, 105>>
\* dHJ1ZQ==   btoa of true
X_TokTrue ==
    <<100, 72, 74, 49, 90, 81, 61, 61>>
\* bnVsbA==   btoa of null
X_TokNullText ==
    <<98, 110, 86, 115, 98, 65, 61, 61>>
\* W10=   btoa of []
X_TokEmptyArr ==
    <<87, 49, 48, 61>>
\* WzFd   btoa of [1]
X_TokArr ==
    <<87, 122, 70, 100>>
\* e30=   btoa of {}
X_TokEmptyObj ==
    <<101, 51, 48, 61>>
\* eyJBIjp7Im5hbWUiOiLDqSIsInBhY2tldEtCIjoyLCJyYXRlTWJwcyI6MTAwLCJkaXN0YW5jZUttIjpudWxsLCJtZWRpdW0iOiJGcmVlIFNwYWNlIChSRikiLCJob3BzIjozLCJwcm9jVXNQZXJIb3AiOjQwLCJxdWV1ZU1zUGVySG9wIjoxLCJxdWV1ZU1vZGVsIjoiTU0xIiwidXRpbGl6YXRpb24iOjAuMjV9LCJCIjpudWxsfQ==   btoa of {"A":{"name":"é","packetKB":2,"rateMbps":100,"distanceKm":null,"medium":"Free Space (RF)","hops":3,"procUsPerHop":40,"queueMsPerHop":1,"queueModel":"MM1","utilization":0.25},"B":null}
X_TokOnlyA ==
    <<101, 121, 74, 66, 73, 106, 112, 55, 73, 109, 53, 104, 98, 87, 85, 105,
    79, 105, 76, 68, 113, 83, 73, 115, 73, 110, 66, 104, 89, 50, 116, 108,
    100, 69, 116, 67, 73, 106, 111, 121, 76, 67, 74, 121, 89, 88, 82, 108,
    84, 87, 74, 119, 99, 121, 73, 54, 77, 84, 65, 119, 76, 67, 74, 107, 97,
    88, 78, 48, 89, 87, 53, 106, 90, 85, 116, 116, 73, 106, 112, 117, 100,
    87, 120, 115, 76, 67, 74, 116, 90, 87, 82, 112, 100, 87, 48, 105, 79,
    105, 74, 71, 99, 109, 86, 108, 73, 70, 78, 119, 89, 87, 78, 108, 73, 67,
    104, 83, 82, 105, 107, 105, 76, 67, 74, 111, 98, 51, 66, 122, 73, 106,
    111, 122, 76, 67, 74, 119, 99, 109, 57, 106, 86, 88, 78, 81, 90, 88, 74,
    73, 98, 51, 65, 105, 79, 106, 81, 119, 76, 67, 74, 120, 100, 87, 86, 49,
    90, 85, 49, 122, 85, 71, 86, 121, 83, 71, 57, 119, 73, 106, 111, 120, 76,
    67, 74, 120, 100, 87, 86, 49, 90, 85, 49, 118, 90, 71, 86, 115, 73, 106,
    111, 105, 84, 85, 48, 120, 73, 105, 119, 105, 100, 88, 82, 112, 98, 71,
    108, 54, 89, 88, 82, 112, 98, 50, 52, 105, 79, 106, 65, 117, 77, 106, 86,
    57, 76, 67, 74, 67, 73, 106, 112, 117, 100, 87, 120, 115, 102, 81, 61,
    61>>
\* eyJBIjp7Im5hbWUiOiLDqSIsInBhY2tldEtCIjoyLCJyYXRlTWJwcyI6MTAwLCJkaXN0YW5jZUttIjpudWxsLCJtZWRpdW0iOiJGcmVlIFNwYWNlIChSRikiLCJob3BzIjozLCJwcm9jVXNQZXJIb3AiOjQwLCJxdWV1ZU1zUGVySG9wIjoxLCJxdWV1ZU1vZGVsIjoiTU0xIiwidXRpbGl6YXRpb24iOjAuMjV9LCJCIjp7Im5hbWUiOiJCIChjb21wYXJlKSIsInBhY2tldEtCIjoxLjUsInJhdGVNYnBzIjoxMDAwLCJkaXN0YW5jZUttIjoxMCwibWVkaXVtIjoiRmliZXIiLCJob3BzIjoxMCwicHJvY1VzUGVySG9wIjo1MCwicXVldWVNc1BlckhvcCI6MC4yLCJxdWV1ZU1vZGVsIjoiRml4ZWQiLCJ1dGlsaXphdGlvbiI6MC41fX0=   btoa of {"A":{"name":"é","packetKB":2,"rateMbps":100,"distanceKm":null,"medium":"Free Space (RF)","hops":3,"procUsPerHop":40,"queueMsPerHop":1,"queueModel":"MM1","utilization":0.25},"B":{"name":"B (compare)","packetKB":1.5,"rateMbps":1000,"distanceKm":10,"medium":"Fiber","hops":10,"procUsPerHop":50,"queueMsPerHop":0.2,"queueModel":"Fixed","utilization":0.5}}
X_TokAB ==
    <<101, 121, 74, 66, 73, 106, 112, 55, 73, 109, 53, 104, 98, 87, 85, 105,
    79, 105, 76, 68, 113, 83, 73, 115, 73, 110, 66, 104, 89, 50, 116, 108,
    100, 69, 116, 67, 73, 106, 111, 121, 76, 67, 74, 121, 89, 88, 82, 108,
    84, 87, 74, 119, 99, 121, 73, 54, 77, 84, 65, 119, 76, 67, 74, 107, 97,
    88, 78, 48, 89, 87, 53, 106, 90, 85, 116, 116, 73, 106, 112, 117, 100,
    87, 120, 115, 76, 67, 74, 116, 90, 87, 82, 112, 100, 87, 48, 105, 79,
    105, 74, 71, 99, 109, 86, 108, 73, 70, 78, 119, 89, 87, 78, 108, 73, 67,
    104, 83, 82, 105, 107, 105, 76, 67, 74, 111, 98, 51, 66, 122, 73, 106,
    111, 122, 76, 67, 74, 119, 99, 109, 57, 106, 86, 88, 78, 81, 90, 88, 74,
    73, 98, 51, 65, 105, 79, 106, 81, 119, 76, 67, 74, 120, 100, 87, 86, 49,
    90, 85, 49, 122, 85, 71, 86, 121, 83, 71, 57, 119, 73, 106, 111, 120, 76,
    67, 74, 120, 100, 87, 86, 49, 90, 85, 49, 118, 90, 71, 86, 115, 73, 106,
    111, 105, 84, 85, 48, 120, 73, 105, 119, 105, 100, 88, 82, 112, 98, 71,
    108, 54, 89, 88, 82, 112, 98, 50, 52, 105, 79, 106, 65, 117, 77, 106, 86,
    57, 76, 67, 74, 67, 73, 106, 112, 55, 73, 109, 53, 104, 98, 87, 85, 105,
    79, 105, 74, 67, 73, 67, 104, 106, 98, 50, 49, 119, 89, 88, 74, 108, 75,
    83, 73, 115, 73, 110, 66, 104, 89, 50, 116, 108, 100, 69, 116, 67, 73,
    106, 111, 120, 76, 106, 85, 115, 73, 110, 74, 104, 100, 71, 86, 78, 89,
    110, 66, 122, 73, 106, 111, 120, 77, 68, 65, 119, 76, 67, 74, 107, 97,
    88, 78, 48, 89, 87, 53, 106, 90, 85, 116, 116, 73, 106, 111, 120, 77, 67,
    119, 105, 98, 87, 86, 107, 97, 88, 86, 116, 73, 106, 111, 105, 82, 109,
    108, 105, 90, 88, 73, 105, 76, 67, 74, 111, 98, 51, 66, 122, 73, 106,
    111, 120, 77, 67, 119, 105, 99, 72, 74, 118, 89, 49, 86, 122, 85, 71, 86,
    121, 83, 71, 57, 119, 73, 106, 111, 49, 77, 67, 119, 105, 99, 88, 86,
    108, 100, 87, 86, 78, 99, 49, 66, 108, 99, 107, 104, 118, 99, 67, 73, 54,
    77, 67, 52, 121, 76, 67, 74, 120, 100, 87, 86, 49, 90, 85, 49, 118, 90,
    71, 86, 115, 73, 106, 111, 105, 82, 109, 108, 52, 90, 87, 81, 105, 76,
    67, 74, 49, 100, 71, 108, 115, 97, 88, 112, 104, 100, 71, 108, 118, 98,
    105, 73, 54, 77, 67, 52, 49, 102, 88, 48, 61>>
\* eyJCIjp7ImhvcHMiOjJ9fQ==   btoa of {"B":{"hops":2}}
X_TokOnlyB ==
    <<101, 121, 74, 67, 73, 106, 112, 55, 73, 109, 104, 118, 99, 72, 77, 105,
    79, 106, 74, 57, 102, 81, 61, 61>>
\* eyJBIjp7ImhvcHMiOjEwMCwicXVldWVNb2RlbCI6Ik1NMSIsInV0aWxpemF0aW9uIjoxLjV9fQ==   btoa of {"A":{"hops":100,"queueModel":"MM1","utilization":1.5}}
X_TokRange ==
    <<101, 121, 74, 66, 73, 106, 112, 55, 73, 109, 104, 118, 99, 72, 77, 105,
    79, 106, 69, 119, 77, 67, 119, 105, 99, 88, 86, 108, 100, 87, 86, 78, 98,
    50, 82, 108, 98, 67, 73, 54, 73, 107, 49, 78, 77, 83, 73, 115, 73, 110,
    86, 48, 97, 87, 120, 112, 101, 109, 70, 48, 97, 87, 57, 117, 73, 106,
    111, 120, 76, 106, 86, 57, 102, 81, 61, 61>>
\* !!
X_TokBadB64 ==
    <<33, 33>>
\* abcde
X_TokBadLen ==
    <<97, 98, 99, 100, 101>>
\* /w==   the byte FF
X_TokBadUtf8 ==
    <<47, 119, 61, 61>>
\* e3 0=\n   btoa of {} with whitespace
X_TokSpaced ==
    <<101, 51, 32, 48, 61, 10>>

\* The values the texts above are the JSON of.
V_Saved1 ==
    JsObj(<< <<K_name, JsStr(N_x)>>, <<K_packetKB, Rat(3, 2)>>, <<K_rateMbps, Num(300)>>,
             <<K_distanceKm, Num(20)>>, <<K_medium, JsStr(S_Coax)>>, <<K_hops, Num(8)>>,
             <<K_procUsPerHop, Num(50)>>, <<K_queueMsPerHop, Rat(1, 5)>>,
             <<K_queueModel, JsStr(S_Fixed)>>, <<K_utilization, Rat(1, 2)>>,
             <<K_savedAt, Num(7)>> >>)
V_Saved2 ==
    JsObj(<< <<K_name, JsStr(<<>>)>>, <<K_hops, Num(100)>>, <<K_queueModel, JsStr(S_MM1)>>,
             <<K_utilization, Rat(3, 2)>>, <<K_savedAt, Num(3)>> >>)
V_LinkA ==
    JsObj(<< <<K_name, JsStr(<<233>>)>>, <<K_packetKB, Num(2)>>, <<K_rateMbps, Num(100)>>,
             <<K_distanceKm, JsNull>>, <<K_medium, JsStr(S_FreeSpaceRF)>>, <<K_hops, Num(3)>>,
             <<K_procUsPerHop, Num(40)>>, <<K_queueMsPerHop, Num(1)>>,
             <<K_queueModel, JsStr(S_MM1)>>, <<K_utilization, Rat(1, 4)>> >>)
V_Range ==
    JsObj(<< <<K_hops, Num(100)>>, <<K_queueModel, JsStr(S_MM1)>>,
             <<K_utilization, Rat(3, 2)>> >>)

\* A slot of n small entries, most recent first: the text and the array.
ManyText(n) ==
    <<91>> \o Concat([i \in 1..n |->
                (IF i = 1 THEN <<>> ELSE <<44>>)
                \o <<123, 34>> \o K_savedAt \o <<34, 58>> \o Digits(n + 1 - i) \o <<125>>])
    \o <<93>>
ManyArr(n) == [i \in 1..n |-> JsObj(<< <<K_savedAt, Num(n + 1 - i)>> >>)]

\* kind: what the slot holds; arr: the array it is the JSON of.
SlotCases ==
    { [raw |-> JsNull, kind |-> "absent", arr |-> <<>>],
      [raw |-> JsStr(<<>>), kind |-> "empty", arr |-> <<>>],
      [raw |-> JsStr(X_SlotBadJson), kind |-> "badjson", arr |-> <<>>],
      [raw |-> JsStr(X_SlotObject), kind |-> "nonarray", arr |-> <<>>],
      [raw |-> JsStr(X_SlotNumber), kind |-> "nonarray", arr |-> <<>>],
      [raw |-> JsStr(X_SlotNullText), kind |-> "nonarray", arr |-> <<>>],
      [raw |-> JsStr(X_SlotEmptyArr), kind |-> "array", arr |-> <<>>],
      [raw |-> JsStr(X_SlotTwo), kind |-> "array", arr |-> <<V_Saved1, V_Saved2, Num(1)>>],
      [raw |-> JsStr(ManyText(Cap)), kind |-> "array", arr |-> ManyArr(Cap)],
      [raw |-> JsStr(ManyText(Cap + 1)), kind |-> "array", arr |-> ManyArr(Cap + 1)] }

\* kind: what the parameter holds; val: the JSON value of an "object" or
\* "array" token.
ParamCases ==
    { [raw |-> JsNull, kind |-> "absent", val |-> JsNull],
      [raw |-> JsStr(<<>>), kind |-> "absent", val |-> JsNull],
      [raw |-> JsStr(X_TokBadB64), kind |-> "badbase64", val |-> JsNull],
      [raw |-> JsStr(X_TokBadLen), kind |-> "badbase64", val |-> JsNull],
      [raw |-> JsStr(X_TokBadUtf8), kind |-> "badutf8", val |-> JsNull],
      [raw |-> JsStr(X_TokBadJson), kind |-> "badjson", val |-> JsNull],
      [raw |-> JsStr(X_TokNumber), kind |-> "nonobject", val |-> JsNull],
      [raw |-> JsStr(X_TokString), kind |-> "nonobject", val |-> JsNull],
      [raw |-> JsStr(X_TokTrue), kind |-> "nonobject", val |-> JsNull],
      [raw |-> JsStr(X_TokNullText), kind |-> "nonobject", val |-> JsNull],
      [raw |-> JsStr(X_TokEmptyArr), kind |-> "array", val |-> JsArr(<<>>)],
      [raw |-> JsStr(X_TokArr), kind |-> "array", val |-> JsArr(<<Num(1)>>)],
      [raw |-> JsStr(X_TokEmptyObj), kind |-> "object", val |-> JsObj(<<>>)],
      [raw |-> JsStr(X_TokSpaced), kind |-> "object", val |-> JsObj(<<>>)],
      [raw |-> JsStr(X_TokOnlyA), kind |-> "object",
       val |-> JsObj(<< <<K_A, V_LinkA>>, <<K_B, JsNull>> >>)],
      [raw |-> JsStr(X_TokAB), kind |-> "object",
       val |-> JsObj(<< <<K_A, V_LinkA>>, <<K_B, DefaultB>> >>)],
      [raw |-> JsStr(X_TokOnlyB), kind |-> "object",
       val |-> JsObj(<< <<K_B, JsObj(<< <<K_hops, Num(2)>> >>)>> >>)],
      [raw |-> JsStr(X_TokRange), kind |-> "object",
       val |-> JsObj(<< <<K_A, V_Range>> >>)] }

SlotCase(raw) == CHOOSE c \in SlotCases : c.raw = raw
ParamCase(raw) == CHOOSE c \in ParamCases : c.raw = raw

----------------------------------------------------------------------------
(* The application: DelayVisualizer and its children *)

\* window.__ndv_currentA and window.__ndv_currentB (lines 635, 645): nothing
\* assigns them; mountGlobalRefs (lines 734-736) has an empty body.
ndv_currentA == JsUndef
ndv_currentB == JsUndef

\* What the keydown listener closes over.  The effect of lines 144-161 runs
\* once (dependency list []), so onKey and the shareURL it calls are those of
\* the first render, with that render's A, B and compare.
KeyClosureA == DefaultA
KeyClosureB == DefaultB
KeyClosureCompare == FALSE

\* shareURL (lines 176-185) in a render whose state is a, b, c: the token of
\* the URL it hands to the clipboard (or to prompt).
SharedToken(tok) == IF tok.ok THEN JsStr(tok.v) ELSE JsNull
shareURL(a, b, c) == SharedToken(encodeState(a, IF c THEN b ELSE JsNull))

\* applyPresetTo's update of a scenario (lines 169-174) and the preset keys'
\* (lines 154-155): unchanged when PRESETS has no such name.
\* A preset that takes the scenario's place wholesale.
PresetInstead(sc, pr) == IF ~Truthy(pr) THEN sc ELSE pr

PresetApplied(sc, pr) == IF ~Truthy(pr) THEN sc ELSE Spread(sc, pr)
applyPreset(sc, preset) == PresetApplied(sc, Get(PRESETS, preset))

\* The state after the first render (lines 125-131) for a given storage and URL.
InitWith(blocked, rawSlot, rawParam) ==
    /\ phase = "mount"
    /\ A = DefaultA
    /\ B = DefaultB
    /\ compare = FALSE
    /\ activeTab = "overview"
    /\ lsBlocked = blocked
    /\ slot = rawSlot
    /\ sParam = rawParam
    /\ scenarios = loadScenarios(blocked, rawSlot)
    /\ name = <<>>
    /\ mA = computeMetrics(DefaultA)
    /\ mB = computeMetrics(DefaultB)
    /\ diff = DiffOf(FALSE, mA, mB)
    /\ now = 0
    /\ shared = JsNull
    /\ ev = [op |-> "init"]

\* Representative startups for the running application.
Init ==
    \E rawSlot \in {JsNull, JsStr(X_SlotTwo), JsStr(ManyText(Cap)), JsStr(ManyText(Cap + 1))},
       rawParam \in {JsNull, JsStr(X_TokAB)} :
        InitWith(FALSE, rawSlot, rawParam)

\* An event handler's state updates and the render after them.
Step(e, A2, B2, c2, tab2, sh2, store2, name2, slot2) ==
    /\ phase = "run"
    /\ now < MaxEvents
    /\ now' = now + 1
    /\ ev' = e
    /\ A' = A2
    /\ B' = B2
    /\ compare' = c2
    /\ activeTab' = tab2
    /\ shared' = sh2
    /\ scenarios' = store2
    /\ name' = name2
    /\ slot' = slot2
    /\ Render(A2, B2, c2)
    /\ UNCHANGED <<phase, lsBlocked, sParam>>

\* A handler of DelayVisualizer: the store, the typed name and the slot stay.
Ui(e, A2, B2, c2, tab2, sh2) == Step(e, A2, B2, c2, tab2, sh2, scenarios, name, slot)

\* The state updates of lines 138-139 and the render after them; obj is what
\* line 137 decoded.
Restored(obj, A2, B2, hasB) ==
    /\ phase = "mount"
    /\ phase' = "run"
    /\ ev' = [op |-> "restore", obj |-> obj]
    /\ A' = A2
    /\ B' = B2
    /\ compare' = (IF hasB THEN TRUE ELSE compare)
    /\ activeTab' = IF hasB THEN "compare" ELSE activeTab
    /\ Render(A2, B2, IF hasB THEN TRUE ELSE compare)
    /\ UNCHANGED <<scenarios, name, lsBlocked, slot, sParam, now, shared>>

\* Lines 138-139 for obj?.A and obj?.B.
RestoreWith(obj, a, b) ==
    Restored(obj, IF Truthy(a) THEN Spread(A, a) ELSE A,
             IF Truthy(b) THEN Spread(B, b) ELSE B, Truthy(b))

RestoreFrom(obj) == RestoreWith(obj, Get(obj, K_A), Get(obj, K_B))

\* The URL restore effect (lines 134-142), run once after the first render.
RestoreEffect == RestoreFrom(IF Truthy(sParam) THEN decodeState(sParam.s) ELSE JsNull)

\* onKey (lines 145-158), the target being no input, select or textarea.
KeyHelp == Ui([op |-> "KeyHelp"], A, B, compare, "help", shared)
KeyC ==
    Ui([op |-> "KeyC"], A, B, ~compare,
       IF activeTab = "compare" THEN "overview" ELSE "compare", shared)
KeyR == Ui([op |-> "KeyR"], DefaultA, DefaultB, compare, activeTab, shared)
KeyS ==
    Ui([op |-> "KeyS"], A, B, compare, activeTab,
       shareURL(KeyClosureA, KeyClosureB, KeyClosureCompare))
KeyPreset(preset) ==
    Ui([op |-> "KeyPreset", preset |-> preset], applyPreset(A, preset), B, compare,
       activeTab, shared)

\* The toolbar (lines 207-214), the tab bar (line 353), the preset buttons (line 236).
ResetButton == Ui([op |-> "ResetButton"], DefaultA, DefaultB, compare, activeTab, shared)
CompareButton == Ui([op |-> "CompareButton"], A, B, ~compare, activeTab, shared)
ShareButton ==
    Ui([op |-> "ShareButton"], A, B, compare, activeTab, shareURL(A, B, compare))
HelpButton == Ui([op |-> "HelpButton"], A, B, compare, "help", shared)
TabClick(tab) == Ui([op |-> "TabClick"], A, B, compare, tab, shared)
PresetButton(preset) ==
    Ui([op |-> "PresetButton", preset |-> preset], applyPreset(A, preset), B, compare,
       activeTab, shared)

\* InputsCard (lines 362-448): the update each control makes to its scenario.
setPacketKB(sc, text) == With(sc, K_packetKB, parseFloat(text))
setRateMbps(sc, text) == With(sc, K_rateMbps, MathRound(parseFloat(text)))
setMedium(sc, m) == With(sc, K_medium, JsStr(m))
setDistanceKm(sc, text) == With(sc, K_distanceKm, clamp(parseFloat(text), Num(0), Num(40000)))
setHops(sc, text) == With(sc, K_hops, MathRound(clamp(parseFloat(text), Num(1), Num(60))))
setProcUsPerHop(sc, text) ==
    With(sc, K_procUsPerHop, clamp(parseFloat(text), Num(0), Num(10000)))
setQueueMsPerHop(sc, text) ==
    With(sc, K_queueMsPerHop, clamp(parseFloat(text), Num(0), Num(200)))
setUtilization(sc, text) == With(sc, K_utilization, clamp(parseFloat(text), Num(0), RhoMax))
\* A chip that also puts utilization back to its default.
setQueueModelAfresh(sc, m) ==
    With(With(sc, K_queueModel, JsStr(m)), K_utilization, Get(DEFAULT_SCENARIO, K_utilization))

setQueueModel(sc, m) == With(sc, K_queueModel, JsStr(m))

\* The card "Scenario A" is always rendered (line 241), the card "Scenario B"
\* in compare mode only (line 242).
Side(side) == IF side = "A" THEN A ELSE B
SetSide(e, side, sc2) ==
    /\ side = "B" => compare
    /\ Ui([op |-> e, side |-> side], IF side = "A" THEN sc2 ELSE A,
          IF side = "B" THEN sc2 ELSE B, compare, activeTab, shared)

PacketInput(side, text) == SetSide("PacketInput", side, setPacketKB(Side(side), text))
RateInput(side, text) == SetSide("RateInput", side, setRateMbps(Side(side), text))
MediumInput(side, m) == SetSide("MediumInput", side, setMedium(Side(side), m))
DistanceInput(side, text) == SetSide("DistanceInput", side, setDistanceKm(Side(side), text))
HopsInput(side, text) == SetSide("HopsInput", side, setHops(Side(side), text))
ProcInput(side, text) == SetSide("ProcInput", side, setProcUsPerHop(Side(side), text))
\* The queuing field shows when queueModel is "Fixed", the utilization slider
\* otherwise (line 429).
QueueMsInput(side, text) ==
    /\ Get(Side(side), K_queueModel) = JsStr(S_Fixed)
    /\ SetSide("QueueMsInput", side, setQueueMsPerHop(Side(side), text))
UtilInput(side, text) ==
    /\ Get(Side(side), K_queueModel) # JsStr(S_Fixed)
    /\ SetSide("UtilInput", side, setUtilization(Side(side), text))
QueueModelChip(side, m) == SetSide("QueueModelChip", side, setQueueModel(Side(side), m))

\* ScenarioManager (lines 607-687).

\* The name field (line 630).
TypeName(text) ==
    Step([op |-> "TypeName"], A, B, compare, activeTab, shared, scenarios, text, slot)

\* A click in ScenarioManager.  called: the handler reached setScenarios, the
\* wrapper of line 227, which stores arr and then calls saveScenarios(arr);
\* failed: setItem raises for want of quota.
StoreClick(e, i, called, arr, failed) ==
    Step([op |-> e, i |-> i, called |-> called,
          wrote |-> called /\ ~(lsBlocked \/ failed)],
         A, B, compare, activeTab, shared,
         IF called THEN arr ELSE scenarios, name,
         IF called THEN saveScenarios(arr, lsBlocked \/ failed, slot) ELSE slot)

\* { ...a, name: name || a.name, savedAt: Date.now() } (lines 637, 647).
SavedEntry(a, typed, t) ==
    With(With(a, K_name, IF Truthy(JsStr(typed)) THEN JsStr(typed) ELSE Get(a, K_name)),
         K_savedAt, Num(t))

\* [entry, ...scenarios].slice(0, 50) (lines 638, 648).
Prepend(entry, store) ==
    SubSeq(<<entry>> \o store, 1, IF Len(store) + 1 > Cap THEN Cap ELSE Len(store) + 1)

\* The Save A and Save B buttons (lines 632-651): a return when the global is unset.
SaveClick(e, a, failed) ==
    StoreClick(e, 0, Truthy(a), Prepend(SavedEntry(a, name, now + 1), scenarios), failed)
SaveA(failed) == SaveClick("SaveA", ndv_currentA, failed)
SaveB(failed) == SaveClick("SaveB", ndv_currentB, failed)

\* Load -> A and Load -> B of row i (lines 228-229, 666-667).
LoadA(i) ==
    Ui([op |-> "LoadA", i |-> i], Spread(A, scenarios[i]), B, compare, activeTab, shared)
LoadB(i) ==
    Ui([op |-> "LoadB", i |-> i], A, Spread(B, scenarios[i]), compare, activeTab, shared)

\* Rename of row i (lines 668-675); answer: what prompt() returned, null on
\* cancel.
Rename(i, answer, failed) ==
    StoreClick("Rename", i, answer # JsNull,
               [scenarios EXCEPT ![i] = With(scenarios[i], K_name, answer)], failed)

\* A splice that removes row i and every row after it.
SpliceRest(arr, i) == SubSeq(arr, 1, i - 1)

\* arr.splice(i, 1)
Splice(arr, i) == SubSeq(arr, 1, i - 1) \o SubSeq(arr, i + 1, Len(arr))

\* Delete of row i (lines 676-678).
Delete(i, failed) == StoreClick("Delete", i, TRUE, Splice(scenarios, i), failed)

\* Where a render reads a field of diff (lines 252-279, 477-517).

\* A Compare panel that lacks the return of line 478.
ComparePanelAlways(tab, c) == tab = "compare"

\* The delta total of the totals bar (lines 258-263): diff.totalMs.
TotalsBarReadsDiff(c) == c

\* The DiffBars of ComparePanel (lines 508-512), which is rendered under the
\* Compare tab (line 277) and returns early when compare is off (line 478).
ComparePanelReadsDiff(tab, c) == tab = "compare" /\ c

\* The current render reads a field of diff.
RenderReadsDiff ==
    TotalsBarReadsDiff(compare) \/ ComparePanelReadsDiff(activeTab, compare)

Sides == {"A", "B"}

Next ==
    \/ RestoreEffect
    \/ KeyHelp
    \/ KeyC
    \/ KeyR
    \/ KeyS
    \/ \E preset \in PresetNames : KeyPreset(preset)
    \/ ResetButton
    \/ CompareButton
    \/ ShareButton
    \/ HelpButton
    \/ \E tab \in Tabs : TabClick(tab)
    \/ \E preset \in PresetNames : PresetButton(preset)
    \/ \E side \in Sides, text \in PacketTexts : PacketInput(side, text)
    \/ \E side \in Sides, text \in RateTexts : RateInput(side, text)
    \/ \E side \in Sides, m \in MediumInputs : MediumInput(side, m)
    \/ \E side \in Sides, text \in NumberTexts : DistanceInput(side, text)
    \/ \E side \in Sides, text \in NumberTexts : HopsInput(side, text)
    \/ \E side \in Sides, text \in ShortTexts : ProcInput(side, text)
    \/ \E side \in Sides, text \in ShortTexts : QueueMsInput(side, text)
    \/ \E side \in Sides, text \in UtilTexts : UtilInput(side, text)
    \/ \E side \in Sides, m \in QueueModels : QueueModelChip(side, m)
    \/ \E text \in TypedNames : TypeName(text)
    \/ \E failed \in BOOLEAN : SaveA(failed)
    \/ \E failed \in BOOLEAN : SaveB(failed)
    \/ \E i \in Rows(scenarios) : LoadA(i)
    \/ \E i \in Rows(scenarios) : LoadB(i)
    \/ \E i \in Rows(scenarios), answer \in PromptAnswers, failed \in BOOLEAN :
          Rename(i, answer, failed)
    \/ \E i \in Rows(scenarios), failed \in BOOLEAN : Delete(i, failed)

\* The running application, from representative startups.
Spec == Init /\ [][Next]_vars

----------------------------------------------------------------------------
(* Startup: every kind of slot content and of "s" parameter *)

InitStartup ==
    \E blocked \in BOOLEAN, sc \in SlotCases, pc \in ParamCases :
        InitWith(blocked, sc.raw, pc.raw)

NextStartup == RestoreEffect

SpecStartup == InitStartup /\ [][NextStartup]_vars

----------------------------------------------------------------------------
(* The metrics engine under edits, from scenarios a share link can restore *)

\* The default scenario with the given sizes and queuing fields.
MetricScenario(pk, rate, hops, util, model) ==
    With(With(With(With(With(DefaultA, K_packetKB, pk), K_rateMbps, rate),
                   K_hops, hops), K_utilization, util), K_queueModel, JsStr(model))

\* Utilizations below, inside and above [0, 0.98].
UtilGrid == {Rat(-1, 2), Num(0), Rat(1, 4), Rat(1, 2), RhoMax, Num(1), Rat(3, 2)}

MetricScenarios ==
    { MetricScenario(pk, rate, hops, util, model) :
        pk \in {Rat(3, 2), Num(2)}, rate \in {Num(100), Num(1000)},
        hops \in {Num(1), Num(10)}, util \in UtilGrid, model \in QueueModels }

InitMetrics ==
    \E sc \in MetricScenarios :
        /\ phase = "run"
        /\ A = sc
        /\ B = DefaultB
        /\ compare = FALSE
        /\ activeTab = "overview"
        /\ lsBlocked = FALSE
        /\ slot = JsNull
        /\ sParam = JsNull
        /\ scenarios = <<>>
        /\ name = <<>>
        /\ mA = computeMetrics(sc)
        /\ mB = computeMetrics(DefaultB)
        /\ diff = DiffOf(FALSE, mA, mB)
        /\ now = 0
        /\ shared = JsNull
        /\ ev = [op |-> "restore", obj |-> JsNull]

NextMetrics ==
    \/ \E text \in PacketTexts : PacketInput("A", text)
    \/ \E text \in RateTexts : RateInput("A", text)
    \/ \E m \in MediumInputs : MediumInput("A", m)
    \/ \E text \in NumberTexts : DistanceInput("A", text)
    \/ \E text \in NumberTexts : HopsInput("A", text)
    \/ \E text \in UtilTexts : UtilInput("A", text)
    \/ \E m \in QueueModels : QueueModelChip("A", m)

SpecMetrics == InitMetrics /\ [][NextMetrics]_vars

----------------------------------------------------------------------------
(* Properties *)

\* The entry a save of scenario sc makes at time t under the typed name.
SaveOf(op, t) == SavedEntry(IF op = "SaveA" THEN A ELSE B, name, t)

\* C1: the store never holds more than 50 entries, whatever the slot held at
\* startup and after any Save A, Save B, Rename or Delete; a save on a store
\* of 50 entries yields the new entry followed by the previous first 49.
C1_StoreAtMostCap ==
    [][ /\ Len(scenarios') <= Cap
        /\ (ev'.op \in {"SaveA", "SaveB"} /\ Len(scenarios) = Cap) =>
              scenarios' = <<SaveOf(ev'.op, now')>> \o SubSeq(scenarios, 1, Cap - 1) ]_vars

\* C2: Save A (Save B) prepends exactly one new entry: the fields of the
\* current scenario A (B), the typed name or else the scenario's own, the
\* current time as savedAt; the entries stored before follow it in order.
C2_SavePrepends ==
    [][ ev'.op \in {"SaveA", "SaveB"} =>
          /\ Len(scenarios') >= 1
          /\ scenarios'[1] = SaveOf(ev'.op, now')
          /\ Len(scenarios) < Cap => Len(scenarios') = Len(scenarios) + 1
          /\ \A i \in 2..Len(scenarios') : scenarios'[i] = scenarios[i - 1] ]_vars

\* C3: decoding the token that Share makes of the current state gives back A,
\* and B in compare mode (null otherwise), field for field.
C3_ShareRoundTrip ==
    ev.op = "ShareButton" =>
        /\ shared # JsNull
        /\ SameFields(Get(decodeState(shared.s), K_A), A)
        /\ IF compare THEN SameFields(Get(decodeState(shared.s), K_B), B)
                      ELSE Get(decodeState(shared.s), K_B) = JsNull

\* The kinds of "s" parameter that hold no JSON object.
NoObjectKinds == {"badbase64", "badutf8", "badjson", "nonobject", "array"}

\* C4: decodeState returns null or an object for every string; null for bad
\* base64, bad UTF-8, bad JSON and JSON that is no object (a number, string,
\* boolean, null or array); a startup whose parameter decodes to null leaves
\* both scenarios at their defaults with compare mode off.
C4_DecodeTotal ==
    (phase = "run" /\ ParamCase(sParam).kind # "absent") =>
        /\ ev.obj = JsNull \/ ev.obj.t = "obj"
        /\ ParamCase(sParam).kind \in NoObjectKinds => ev.obj = JsNull
        /\ ev.obj = JsNull => (A = DefaultA /\ B = DefaultB /\ ~compare)

\* v is a finite number within [lo, hi].
Within(v, lo, hi) == IsFinite(v) /\ NumLe(lo, v) /\ NumLe(v, hi)

IsInteger(v) == IsFinite(v) /\ v.d = 1

\* The documented ranges of a scenario's numeric fields.
InRange(sc) ==
    /\ Within(Get(sc, K_packetKB), Rat(8, 125), Num(128))
    /\ Within(Get(sc, K_rateMbps), Num(1), Num(100000))
    /\ Within(Get(sc, K_distanceKm), Num(0), Num(40000))
    /\ Within(Get(sc, K_hops), Num(1), Num(60)) /\ IsInteger(Get(sc, K_hops))
    /\ Within(Get(sc, K_procUsPerHop), Num(0), Num(10000))
    /\ Within(Get(sc, K_queueMsPerHop), Num(0), Num(200))
    /\ Within(Get(sc, K_utilization), Num(0), RhoMax)

\* C5: in every reachable state the numeric fields of A and B lie within
\* their documented ranges.
C5_FieldsInRange == InRange(A) /\ InRange(B)

\* C6: a store mutation writes the slot with the new store: when the write
\* succeeds the slot parses to the store in memory; when it fails the slot
\* keeps its text and the store is still the mutation's result.
C6_StorePersisted ==
    [][ (ev'.op \in {"SaveA", "SaveB", "Rename", "Delete"} /\ ev'.called) =>
          /\ ev'.wrote => loadScenarios(FALSE, slot') = scenarios'
          /\ ~ev'.wrote => slot' = slot
          /\ ev'.op = "Delete" => scenarios' = Splice(scenarios, ev'.i)
          /\ ev'.op = "Rename" =>
                /\ Len(scenarios') = Len(scenarios)
                /\ IsString(Get(scenarios'[ev'.i], K_name))
                /\ \A j \in 1..Len(scenarios) :
                      j # ev'.i => scenarios'[j] = scenarios[j] ]_vars

C6_Witness ==
    /\ ev.op = "Rename"
    /\ ev.wrote
    /\ Len(scenarios) = 3
    /\ Get(scenarios[1], K_name) = JsStr(N_eacute)
    /\ loadScenarios(FALSE, slot) = scenarios

\* What the store holds at startup for the slot's content.
StoreLoaded ==
    /\ (lsBlocked \/ SlotCase(slot).kind \in {"absent", "empty", "badjson", "nonarray"})
          => scenarios = <<>>
    /\ (~lsBlocked /\ SlotCase(slot).kind = "array") => scenarios = SlotCase(slot).arr

\* C7: loadScenarios gives the empty store when the slot is absent, empty,
\* unreadable, no valid JSON or JSON that is no array, and the stored array
\* otherwise; it never writes the slot.
C7_LoadScenarios == [][StoreLoaded /\ StoreLoaded' /\ slot' = slot]_vars

C7_Witness ==
    /\ phase = "run"
    /\ ~lsBlocked
    /\ slot = JsStr(X_SlotTwo)
    /\ scenarios = <<V_Saved1, V_Saved2, Num(1)>>

\* The per-hop queuing delay of scenario sc at utilization u.
QueuePerHopAt(sc, u) == computeMetrics(With(sc, K_utilization, u)).queuePerHop_ms

\* rho limited to [0, 0.98].
RhoOf(u) == IF NumLt(u, Num(0)) THEN Num(0) ELSE IF NumLt(RhoMax, u) THEN RhoMax ELSE u

\* M/M/1 with a positive packet size and rate and a finite utilization.
MM1Case(sc) ==
    /\ Get(sc, K_queueModel) = JsStr(S_MM1)
    /\ IsFinite(Get(sc, K_packetKB)) /\ NumLt(Num(0), Get(sc, K_packetKB))
    /\ IsFinite(Get(sc, K_rateMbps)) /\ NumLt(Num(0), Get(sc, K_rateMbps))
    /\ IsFinite(Get(sc, K_utilization))

\* C8: under M/M/1 with positive packet size and rate, for any utilization the
\* per-hop queuing delay is finite and non-negative, equal to
\* 1000 rho / (mu (1 - rho)) for the utilization limited to [0, 0.98]; at or
\* above 0.98 it is the delay at 0.98; it grows strictly over [0, 0.98].
C8_MM1Queue ==
    MM1Case(A) =>
        /\ IsFinite(mA.queuePerHop_ms)
        /\ NumLe(Num(0), mA.queuePerHop_ms)
        /\ NumLt(Num(0), NumSub(Num(1), RhoOf(Get(A, K_utilization))))
        /\ mA.queuePerHop_ms =
              NumDiv(NumMul(Num(1000), RhoOf(Get(A, K_utilization))),
                     NumMul(NumDiv(mA.rate, mA.bits),
                            NumSub(Num(1), RhoOf(Get(A, K_utilization)))))
        /\ NumLe(RhoMax, Get(A, K_utilization)) =>
              mA.queuePerHop_ms = QueuePerHopAt(A, RhoMax)
        /\ \A v \in UtilGrid :
              (NumLe(Num(0), Get(A, K_utilization)) /\ NumLt(Get(A, K_utilization), v)
                 /\ NumLe(v, RhoMax))
              => NumLt(mA.queuePerHop_ms, QueuePerHopAt(A, v))

C8_Witness ==
    /\ ev.op = "QueueModelChip"
    /\ A = MetricScenario(Rat(3, 2), Num(1000), Num(10), Rat(3, 2), S_MM1)
    /\ mA.queuePerHop_ms = Rat(9408, 15625)
    /\ mA.dQueueTotalMs = Rat(18816, 3125)

\* The differences B - A of the metrics computed from the current scenarios.
DiffNow ==
    [t |-> "diff",
     totalMs |-> NumSub(computeMetrics(B).totalMs, computeMetrics(A).totalMs),
     tx |-> NumSub(computeMetrics(B).dTransTotalMs, computeMetrics(A).dTransTotalMs),
     prop |-> NumSub(computeMetrics(B).dPropMs, computeMetrics(A).dPropMs),
     proc |-> NumSub(computeMetrics(B).dProcTotalMs, computeMetrics(A).dProcTotalMs),
     queue |-> NumSub(computeMetrics(B).dQueueTotalMs, computeMetrics(A).dQueueTotalMs)]

\* C9: in compare mode diff holds B's value minus A's for each delay and the
\* total, computed from the current scenarios; otherwise diff is null.
C9_DiffCurrent == diff = (IF compare THEN DiffNow ELSE JsNull)

C9_Witness ==
    /\ compare
    /\ ev.op = "HopsInput"
    /\ ev.side = "A"
    /\ Get(A, K_hops) = Num(60)
    /\ diff # JsNull
    /\ Sign(diff.queue) < 0

\* All four of a scenario's inputs to the delays are finite numbers.
Computable(sc) == \A k \in NumericKeys : IsFinite(ToNumber(Get(sc, k)))

\* The total is the sum of the four delays; transmission, processing and
\* queuing are the per-hop value times hops.
DelaysAddUp(sc, m) ==
    /\ m.totalMs = NumAdd(NumAdd(NumAdd(m.dTransTotalMs, m.dPropMs), m.dProcTotalMs),
                          m.dQueueTotalMs)
    /\ m.dTransTotalMs = NumMul(m.txPerHop_ms, Get(sc, K_hops))
    /\ m.dProcTotalMs = NumMul(NumDiv(Get(sc, K_procUsPerHop), Num(1000)), Get(sc, K_hops))
    /\ m.dQueueTotalMs = NumMul(m.queuePerHop_ms, Get(sc, K_hops))

\* C10: totalMs is the sum of the four delays; transmission, processing and
\* queuing are each the per-hop value times hops; the propagation delay is
\* the same after a change of hops or of the queue model.
C10_TotalOfParts ==
    [][ /\ Computable(A) => DelaysAddUp(A, mA)
        /\ Computable(A') => DelaysAddUp(A', mA')
        /\ ev'.op \in {"HopsInput", "QueueModelChip"} => mA'.dPropMs = mA.dPropMs ]_vars

C10_Witness ==
    /\ ev.op = "HopsInput"
    /\ Get(A, K_hops) = Num(3)
    /\ Get(A, K_queueModel) = JsStr(S_Fixed)
    /\ Get(A, K_packetKB) = Rat(3, 2)
    /\ Get(A, K_rateMbps) = Num(1000)
    /\ mA.dPropMs = Rat(1, 20)
    /\ mA.totalMs = Rat(13076, 15625)

\* Per-hop queuing values a scenario can carry in its Fixed field.
QueueMsGrid == {Num(0), Rat(1, 5), Num(200)}

\* The engine reads the active queuing field of sc alone: m, the metrics of
\* sc, stay the same whatever the other field holds.
ActiveFieldOnly(sc, m) ==
    IF Get(sc, K_queueModel) = JsStr(S_MM1)
    THEN \A w \in QueueMsGrid : computeMetrics(With(sc, K_queueMsPerHop, w)) = m
    ELSE \A u \in UtilGrid : computeMetrics(With(sc, K_utilization, u)) = m

\* C11: a switch of the queue model changes queueModel alone, every other
\* field keeps its value; the metrics depend on the active field only; and the
\* switch back gives the scenario and the breakdown from before the switch.
C11_QueueModelSwitch ==
    [][ ev'.op = "QueueModelChip" =>
          /\ Len(A'.kv) = Len(A.kv)
          /\ \A i \in 1..Len(A.kv) :
                /\ A'.kv[i][1] = A.kv[i][1]
                /\ A.kv[i][1] # K_queueModel => A'.kv[i] = A.kv[i]
          /\ Get(A', K_queueModel) \in {JsStr(S_Fixed), JsStr(S_MM1)}
          /\ ActiveFieldOnly(A', mA')
          /\ setQueueModel(A', Get(A, K_queueModel).s) = A
          /\ computeMetrics(setQueueModel(A', Get(A, K_queueModel).s)) = mA ]_vars

C11_Witness ==
    /\ ev.op = "QueueModelChip"
    /\ Get(A, K_queueModel) = JsStr(S_Fixed)
    /\ Get(A, K_utilization) = Rat(1, 4)
    /\ Get(A, K_queueMsPerHop) = Rat(1, 5)
    /\ Get(A, K_hops) = Num(60)
    /\ mA.queuePerHop_ms = Rat(1, 5)
    /\ mA.dQueueTotalMs = Num(12)

\* The fields every preset defines (lines 26-27).
PresetKeys ==
    {K_rateMbps, K_packetKB, K_distanceKm, K_medium, K_hops, K_procUsPerHop,
     K_queueMsPerHop, K_queueModel, K_utilization}

\* The keys of an object.
KeysOf(o) == {o.kv[i][1] : i \in 1..Len(o.kv)}

\* C12: a preset applied to A by its button or by a key 1-5 replaces the
\* fields the preset defines with the preset's values and keeps every other
\* field of A, the name among them; B, the compare flag and the store stay;
\* a name that is no preset's changes nothing.
C12_PresetMerges ==
    [][ ev'.op \in {"PresetButton", "KeyPreset"} =>
          /\ KeysOf(Get(PRESETS, ev'.preset)) = PresetKeys
          /\ KeysOf(A') = KeysOf(A) \cup PresetKeys
          /\ \A k \in PresetKeys : Get(A', k) = Get(Get(PRESETS, ev'.preset), k)
          /\ \A k \in KeysOf(A) \ PresetKeys : Get(A', k) = Get(A, k)
          /\ B' = B
          /\ compare' = compare
          /\ scenarios' = scenarios
          /\ applyPreset(A, N_x) = A ]_vars

C12_Witness ==
    /\ ev.op = "KeyPreset"
    /\ ev.preset = P_4G
    /\ compare
    /\ Get(A, K_name) = JsStr(<<233>>)
    /\ Get(A, K_rateMbps) = Num(75)
    /\ Get(A, K_medium) = JsStr(S_FreeSpaceRF)
    /\ Get(A, K_utilization) = Rat(7, 10)
    /\ Len(scenarios) = 3

\* Entry new is entry old under the name n: the name is n, every other field
\* of old is there with its value, and there is no further field.
Renamed(old, new, n) ==
    /\ Get(new, K_name) = n
    /\ KeysOf(new) = {p[1] : p \in {OwnProps(old)[j] : j \in 1..Len(OwnProps(old))}}
                        \cup {K_name}
    /\ \A j \in 1..Len(OwnProps(old)) :
          OwnProps(old)[j][1] # K_name => Get(new, OwnProps(old)[j][1]) = OwnProps(old)[j][2]

\* C13: Rename of row i gives a store of the same length whose entry i has the
\* new name and otherwise its old fields, the other entries staying in place;
\* a cancelled rename leaves the store as it was; Delete of row i gives a
\* store one shorter with the other entries in their order; neither changes
\* scenario A or B.
C13_RowOnly ==
    [][ /\ (ev'.op = "Rename" /\ ev'.called) =>
              /\ Len(scenarios') = Len(scenarios)
              /\ \E n \in PromptAnswers \ {JsNull} :
                    Renamed(scenarios[ev'.i], scenarios'[ev'.i], n)
              /\ \A j \in 1..Len(scenarios) :
                    j # ev'.i => scenarios'[j] = scenarios[j]
        /\ (ev'.op = "Rename" /\ ~ev'.called) => (scenarios' = scenarios /\ slot' = slot)
        /\ ev'.op = "Delete" =>
              /\ Len(scenarios') = Len(scenarios) - 1
              /\ \A j \in 1..Len(scenarios') :
                    scenarios'[j] = scenarios[IF j < ev'.i THEN j ELSE j + 1]
        /\ ev'.op \in {"Rename", "Delete"} => (A' = A /\ B' = B) ]_vars

C13_Witness ==
    /\ ev.op = "Delete"
    /\ ev.i = 1
    /\ scenarios = <<V_Saved2, Num(1)>>
    /\ A = DefaultA

\* C14: the S key shares what the Share button shares: the token it makes
\* encodes the current A, and the current B in compare mode, null otherwise.
C14_KeySharesCurrent ==
    ev.op = "KeyS" =>
        /\ shared = SharedToken(encodeState(A, IF compare THEN B ELSE JsNull))
        /\ shared # JsNull

\* C15: whatever the compare flag and the active tab, a render reads a field
\* of diff only when compare mode is on and diff is not null.
C15_DiffNeverNullRead == RenderReadsDiff => (compare /\ diff # JsNull /\ diff.t = "diff")

C15_Witness ==
    /\ ev.op = "CompareButton"
    /\ activeTab = "compare"
    /\ ~compare
    /\ diff = JsNull
    /\ ~RenderReadsDiff

====
